---- MODULE Spec2Model ----
(***************************************************************************)
(* Model of the document core of sors: the Doc (task map, clock map,       *)
(* active-clock register, root), the reference-counted copy-on-write       *)
(* snapshots (Rc<Task>, Rc<Clock>) it stores, and the clock edit session.  *)
(***************************************************************************)
EXTENDS Integers, Sequences, FiniteSets, TLC

\* ------------------------------------------------------------------ bounds
MaxClocks == 2
MaxTasks == 3
MaxTime == 2
MaxLinks == 3
MaxLoaded == 1
MaxEdits == 1
MaxChildren == 4

ClockIds == 1..(MaxClocks + MaxLoaded + 2)
TaskIds == 1..MaxTasks
Times == 0..MaxTime
\* A timestamp is a day and a time of day: DateTime::date(), DateTime::time().
TimesOfDay == {0, 1}
TicksPerDay == Cardinality(TimesOfDay)
date(t) == t \div TicksPerDay
time(t) == t % TicksPerDay
Dates == {date(t) : t \in Times}
Durations == {0, 1}
Comments == {"c"}
\* A title is a string: the sequence of its characters.
Titles == {<< >>, << "a" >>}

\* ------------------------------------------------------- Option and Result
NoneV == << >>
Some(x) == << x >>
IsSome(o) == o # << >>
Unwrap(o) == o[1]

Ok(v) == [ok |-> TRUE, val |-> v]
Err(e) == [ok |-> FALSE, err |-> e]

Range(s) == {s[i] : i \in DOMAIN s}

\* ------------------------------------------------------------------- state
VARIABLES
    doc,         \* struct Doc: map, clocks, current_clock, root (Rc handles)
    task_heap,   \* the Task allocations the Rc<Task> handles point to
    clock_heap,  \* the Clock allocations the Rc<Clock> handles point to
    edit,        \* Option<ClockEdit>: the open clock edit session
    now,         \* the wall clock read by Local::now()
    last,        \* the last operation called, its arguments and its result
    news,        \* the clock_new calls made in a row: the ids they returned
    spent        \* whether a session was opened, and the edits made on it

vars == << doc, task_heap, clock_heap, edit, now, last, news, spent >>

\* Uuid::new_v4(): an id that collides with none in use. Ids are opaque and only
\* compared for equality, so the least unused id stands for any fresh one.
new_v4(ids, used) == {i \in ids \ used : \A j \in ids \ used : i <= j}

\* --------------------------------------------------------------- Rc handles
\* Rc::new: a new allocation at an unused address.
alloc(h) == CHOOSE a \in 1..(Cardinality(DOMAIN h) + 1) : a \notin DOMAIN h

rc_new(h, v) == [heap |-> h @@ (alloc(h) :> v), ref |-> alloc(h)]

\* Rc::make_mut with a handle whose strong count is `count`: a unique handle is
\* mutated in place, a shared one is first cloned into a new allocation.
make_mut_in_place(h, a, count) == [heap |-> h, ref |-> a]
make_mut(h, a, count) ==
    IF count = 1 THEN [heap |-> h, ref |-> a]
    ELSE [heap |-> h @@ (alloc(h) :> h[a]), ref |-> alloc(h)]

\* The Rc<Clock> handles held by the Doc and by the open session.
doc_clock_refs(d, a) == Cardinality({i \in DOMAIN d.clocks : d.clocks[i] = a})
edit_clock_refs(e, a) ==
    IF IsSome(e) THEN Cardinality({i \in DOMAIN Unwrap(e).clocks : Unwrap(e).clocks[i] = a})
    ELSE 0
clock_strong_count(d, a) == doc_clock_refs(d, a) + edit_clock_refs(edit, a)

\* Dropping the last handle frees the allocation. Addresses are not observable
\* by the program, so the live allocations are renamed to a fixed layout: a
\* stored clock at the address of its key, a session-only clock behind them at
\* the first session position that holds it.
clock_addr(d, e, a) ==
    IF \E i \in DOMAIN d.clocks : d.clocks[i] = a
    THEN CHOOSE i \in DOMAIN d.clocks :
            d.clocks[i] = a /\ \A j \in DOMAIN d.clocks : d.clocks[j] = a => i <= j
    ELSE MaxClocks + (CHOOSE p \in DOMAIN Unwrap(e).clocks :
            Unwrap(e).clocks[p] = a
            /\ \A q \in DOMAIN Unwrap(e).clocks : Unwrap(e).clocks[q] = a => p <= q)

live_clocks(d, e) ==
    {d.clocks[i] : i \in DOMAIN d.clocks}
    \cup (IF IsSome(e) THEN Range(Unwrap(e).clocks) ELSE {})

drop_clocks(h, d, e) ==
    LET live == live_clocks(d, e)
        to == [a \in live |-> clock_addr(d, e, a)]
        from == [b \in {to[a] : a \in live} |-> CHOOSE a \in live : to[a] = b]
    IN [doc |-> [d EXCEPT !.clocks = [i \in DOMAIN d.clocks |-> to[d.clocks[i]]]],
        heap |-> [b \in DOMAIN from |-> h[from[b]]],
        edit |-> IF IsSome(e)
                 THEN Some([clocks |-> [p \in DOMAIN Unwrap(e).clocks |->
                                           to[Unwrap(e).clocks[p]]]])
                 ELSE NoneV]

\* -------------------------------------------------------------------- Clock
\* impl ClockMod for Rc<Clock>; `count` is the strong count of the handle.
set_start_in_place(h, a, count, start) ==
    [heap |-> [h EXCEPT ![a].start = start], ref |-> a]
set_start(h, a, count, start) ==
    LET m == make_mut(h, a, count)
    IN [heap |-> [m.heap EXCEPT ![m.ref].start = start], ref |-> m.ref]

set_end_in_place(h, a, count, end) ==
    [heap |-> [h EXCEPT ![a].end = Some(end)], ref |-> a]
set_end(h, a, count, end) ==
    LET m == make_mut(h, a, count)
    IN [heap |-> [m.heap EXCEPT ![m.ref].end = Some(end)], ref |-> m.ref]

set_comment(h, a, count, comment) ==
    LET m == make_mut(h, a, count)
    IN [heap |-> [m.heap EXCEPT ![m.ref].comment = Some(comment)], ref |-> m.ref]

set_task_id(h, a, count, task_id) ==
    LET m == make_mut(h, a, count)
    IN [heap |-> [m.heap EXCEPT ![m.ref].task_id = Some(task_id)], ref |-> m.ref]

\* ---------------------------------------------------------------- Doc: clocks
\* Doc::clock
clock(d, clock_ref) ==
    IF clock_ref \in DOMAIN d.clocks THEN Ok(d.clocks[clock_ref])
    ELSE Err("ClockNotFound")

\* Doc::upsert_clock: HashMap::insert under the clock's own id.
upsert_clock(d, h, a) ==
    [d EXCEPT !.clocks = [i \in (DOMAIN d.clocks \cup {h[a].id}) |->
                             IF i = h[a].id THEN a ELSE d.clocks[i]]]

\* Doc::clock_out; `t` is what Local::now() returns.
clock_out_keep_register(d, h, t) ==
    IF IsSome(d.current_clock) THEN
        LET r == clock(d, Unwrap(d.current_clock)) IN
        IF ~r.ok THEN [doc |-> d, heap |-> h, ret |-> r]
        ELSE LET s == set_end(h, r.val, clock_strong_count(d, r.val) + 1, t)
             IN [doc |-> upsert_clock(d, s.heap, s.ref), heap |-> s.heap, ret |-> Ok(TRUE)]
    ELSE [doc |-> d, heap |-> h, ret |-> Ok(FALSE)]
clock_out_no_upsert(d, h, t) ==
    IF IsSome(d.current_clock) THEN
        LET r == clock(d, Unwrap(d.current_clock)) IN
        IF ~r.ok THEN [doc |-> d, heap |-> h, ret |-> r]
        ELSE [doc |-> [d EXCEPT !.current_clock = NoneV], heap |-> h, ret |-> Ok(TRUE)]
    ELSE [doc |-> d, heap |-> h, ret |-> Ok(FALSE)]
clock_out_idle_true(d, h, t) ==
    IF IsSome(d.current_clock) THEN
        LET r == clock(d, Unwrap(d.current_clock)) IN
        IF ~r.ok THEN [doc |-> d, heap |-> h, ret |-> r]
        ELSE LET s == set_end(h, r.val, clock_strong_count(d, r.val) + 1, t)
                 d1 == upsert_clock(d, s.heap, s.ref)
             IN [doc |-> [d1 EXCEPT !.current_clock = NoneV], heap |-> s.heap,
                 ret |-> Ok(TRUE)]
    ELSE [doc |-> d, heap |-> h, ret |-> Ok(TRUE)]
clock_out(d, h, t) ==
    IF IsSome(d.current_clock) THEN
        LET r == clock(d, Unwrap(d.current_clock)) IN
        IF ~r.ok THEN [doc |-> d, heap |-> h, ret |-> r]
        ELSE LET s == set_end(h, r.val, clock_strong_count(d, r.val) + 1, t)
                 d1 == upsert_clock(d, s.heap, s.ref)
             IN [doc |-> [d1 EXCEPT !.current_clock = NoneV], heap |-> s.heap,
                 ret |-> Ok(TRUE)]
    ELSE [doc |-> d, heap |-> h, ret |-> Ok(FALSE)]

\* Doc::clock_new; `t1` and `t2` are what the two Local::now() calls return and
\* `id` is what Uuid::new_v4() returns.
clock_new_no_clock_out(d, h, t1, t2, id) ==
    LET n == rc_new(h, [id |-> id, start |-> t2, end |-> NoneV,
                        comment |-> NoneV, task_id |-> NoneV])
        d1 == upsert_clock(d, n.heap, n.ref)
    IN [doc |-> [d1 EXCEPT !.current_clock = Some(id)], heap |-> n.heap,
        ret |-> Ok(n.ref)]
clock_new_no_upsert(d, h, t1, t2, id) ==
    LET o == clock_out(d, h, t1) IN
    IF ~o.ret.ok THEN [doc |-> d, heap |-> h, ret |-> o.ret]
    ELSE LET n == rc_new(o.heap, [id |-> id, start |-> t2, end |-> NoneV,
                                  comment |-> NoneV, task_id |-> NoneV])
         IN [doc |-> [o.doc EXCEPT !.current_clock = Some(id)], heap |-> n.heap,
             ret |-> Ok(n.ref)]
clock_new_ignore_error(d, h, t1, t2, id) ==
    LET o == clock_out(d, h, t1)
        n == rc_new(o.heap, [id |-> id, start |-> t2, end |-> NoneV,
                             comment |-> NoneV, task_id |-> NoneV])
        d1 == upsert_clock(o.doc, n.heap, n.ref)
    IN [doc |-> [d1 EXCEPT !.current_clock = Some(id)], heap |-> n.heap,
        ret |-> Ok(n.ref)]
clock_new(d, h, t1, t2, id) ==
    LET o == clock_out(d, h, t1) IN
    IF ~o.ret.ok THEN [doc |-> d, heap |-> h, ret |-> o.ret]
    ELSE LET n == rc_new(o.heap, [id |-> id, start |-> t2, end |-> NoneV,
                                  comment |-> NoneV, task_id |-> NoneV])
             d1 == upsert_clock(o.doc, n.heap, n.ref)
         IN [doc |-> [d1 EXCEPT !.current_clock = Some(id)], heap |-> n.heap,
             ret |-> Ok(n.ref)]

\* Doc::clock_assign
clock_assign_no_upsert(d, h, task_ref) ==
    IF IsSome(d.current_clock) THEN
        LET r == clock(d, Unwrap(d.current_clock)) IN
        IF ~r.ok THEN [doc |-> d, heap |-> h, ret |-> r]
        ELSE LET s == set_task_id(h, r.val, clock_strong_count(d, r.val) + 1, task_ref)
             IN [doc |-> d, heap |-> s.heap, ret |-> Ok("unit")]
    ELSE [doc |-> d, heap |-> h, ret |-> Ok("unit")]
clock_assign(d, h, task_ref) ==
    IF IsSome(d.current_clock) THEN
        LET r == clock(d, Unwrap(d.current_clock)) IN
        IF ~r.ok THEN [doc |-> d, heap |-> h, ret |-> r]
        ELSE LET s == set_task_id(h, r.val, clock_strong_count(d, r.val) + 1, task_ref)
             IN [doc |-> upsert_clock(d, s.heap, s.ref), heap |-> s.heap, ret |-> Ok("unit")]
    ELSE [doc |-> d, heap |-> h, ret |-> Ok("unit")]

\* Doc::clock_comment
clock_comment(d, h, comment) ==
    IF IsSome(d.current_clock) THEN
        LET r == clock(d, Unwrap(d.current_clock)) IN
        IF ~r.ok THEN [doc |-> d, heap |-> h, ret |-> r]
        ELSE LET s == set_comment(h, r.val, clock_strong_count(d, r.val) + 1, comment)
             IN [doc |-> upsert_clock(d, s.heap, s.ref), heap |-> s.heap, ret |-> Ok("unit")]
    ELSE [doc |-> d, heap |-> h, ret |-> Ok("unit")]

\* The stored clocks by value (what Doc::clock(id) dereferences to).
ClockOf(id) == clock_heap[doc.clocks[id]]
StoredClocks == [i \in DOMAIN doc.clocks |-> ClockOf(i)]
OpenClocks == {i \in DOMAIN doc.clocks : ClockOf(i).end = NoneV}

\* ---------------------------------------------------------------- ClockEdit
\* Date::and_time: the timestamp of a day and a time of day in the local time
\* zone, or None when that local time does not exist exactly once there (it is
\* skipped or repeated by a change of the offset); `single` tells which.
and_time(d, tod, single) == IF single THEN Some(d * TicksPerDay + tod) ELSE NoneV

\* ClockEdit::get_clock; indices are 0-based as in the Vec.
get_clock(e, i) ==
    IF i < Len(e.clocks) THEN Ok(e.clocks[i + 1]) ELSE Err("ClockOutOfIndex")

\* ClockEdit::update_clock
update_clock(e, i, a) ==
    IF i < Len(e.clocks)
    THEN [edit |-> [e EXCEPT !.clocks[i + 1] = a], ret |-> Ok("unit")]
    ELSE [edit |-> e, ret |-> Err("ClockOutOfIndex")]

\* The closures ClockEdit's setters hand to modify_clock. Those that go
\* through Date::and_time leave the clock alone when it returns None.
set_start_time_no_date(h, a, count, tod, single) ==
    LET n == and_time(0, tod, single) IN
    IF IsSome(n) THEN set_start(h, a, count, Unwrap(n)) ELSE [heap |-> h, ref |-> a]
set_start_time(h, a, count, tod, single) ==
    LET n == and_time(date(h[a].start), tod, single) IN
    IF IsSome(n) THEN set_start(h, a, count, Unwrap(n)) ELSE [heap |-> h, ref |-> a]

set_end_time_from_start(h, a, count, tod, single) ==
    LET n == and_time(date(IF IsSome(h[a].end) THEN Unwrap(h[a].end) ELSE h[a].start),
                      tod, single) IN
    IF IsSome(n) THEN set_end(h, a, count, Unwrap(n)) ELSE [heap |-> h, ref |-> a]
set_end_time(h, a, count, tod, single) ==
    IF IsSome(h[a].end)
    THEN LET n == and_time(date(Unwrap(h[a].end)), tod, single) IN
         IF IsSome(n) THEN set_end(h, a, count, Unwrap(n)) ELSE [heap |-> h, ref |-> a]
    ELSE [heap |-> h, ref |-> a]

set_end_date(h, a, count, day, single) ==
    IF IsSome(h[a].end)
    THEN LET n == and_time(day, time(Unwrap(h[a].end)), single) IN
         IF IsSome(n) THEN set_end(h, a, count, Unwrap(n)) ELSE [heap |-> h, ref |-> a]
    ELSE [heap |-> h, ref |-> a]

edit_call(f, h, a, count, single) ==
    CASE f.op = "set_duration" -> set_end(h, a, count, h[a].start + f.arg)
      [] f.op = "set_start" -> set_start(h, a, count, f.arg)
      [] f.op = "set_start_time" -> set_start_time(h, a, count, f.arg, single)
      [] f.op = "set_end" -> set_end(h, a, count, f.arg)
      [] f.op = "set_end_time" -> set_end_time(h, a, count, f.arg, single)
      [] f.op = "set_end_date" -> set_end_date(h, a, count, f.arg, single)

\* ClockEdit::modify_clock: get_clock clones the handle, so the closure works
\* on a handle that the Vec (and perhaps the Doc) shares.
modify_clock_write_through(d, e, h, i, func, single) ==
    LET g == get_clock(e, i) IN
    IF ~g.ok THEN [edit |-> e, heap |-> h, ret |-> g]
    ELSE LET c == edit_call(func, h, g.val, 1, single)
             u == update_clock(e, i, c.ref)
         IN [edit |-> u.edit, heap |-> c.heap, ret |-> u.ret]
modify_clock(d, e, h, i, func, single) ==
    LET g == get_clock(e, i) IN
    IF ~g.ok THEN [edit |-> e, heap |-> h, ret |-> g]
    ELSE LET c == edit_call(func, h, g.val,
                            doc_clock_refs(d, g.val) + edit_clock_refs(Some(e), g.val) + 1, single)
             u == update_clock(e, i, c.ref)
         IN [edit |-> u.edit, heap |-> c.heap, ret |-> u.ret]

\* The orders HashMap::values() followed by the stable Vec::sort() can leave
\* the handles `as` in: every arrangement with non-decreasing start (impl Ord
\* for Clock compares start alone).
sorted_by_start(h, as) ==
    {q \in [1..Cardinality(as) -> as] :
        /\ \A x, y \in DOMAIN q : x # y => q[x] # q[y]
        /\ \A x, y \in DOMAIN q : x < y => h[q[x]].start <= h[q[y]].start}

\* Doc::create_clock_edit: the sessions it can return.
create_clock_edit_unsorted(d, h, day) ==
    {[clocks |-> q] :
        q \in {q \in [1..Cardinality({i \in DOMAIN d.clocks : date(h[d.clocks[i]].start) = day})
                        -> {d.clocks[i] : i \in {i \in DOMAIN d.clocks :
                                                    date(h[d.clocks[i]].start) = day}}] :
                 \A x, y \in DOMAIN q : x # y => q[x] # q[y]}}
create_clock_edit(d, h, day) ==
    {[clocks |-> q] :
        q \in sorted_by_start(h, {d.clocks[i] : i \in {i \in DOMAIN d.clocks :
                                                    date(h[d.clocks[i]].start) = day}})}

\* Doc::apply_clock_edit
RECURSIVE upsert_all(_, _, _, _)
upsert_all(d, h, cs, k) ==
    IF k > Len(cs) THEN d ELSE upsert_all(upsert_clock(d, h, cs[k]), h, cs, k + 1)

apply_clock_edit_replace_store(d, h, clock_edit) ==
    upsert_all([d EXCEPT !.clocks = << >>], h, clock_edit.clocks, 1)
apply_clock_edit_skip_first(d, h, clock_edit) == upsert_all(d, h, clock_edit.clocks, 2)
apply_clock_edit(d, h, clock_edit) == upsert_all(d, h, clock_edit.clocks, 1)

\* --------------------------------------------------------------------- Task
\* The Rc<Task> handles held by the Doc.
task_strong_count(d, a) == Cardinality({i \in DOMAIN d.map : d.map[i] = a})

\* Dropping the last handle frees the allocation; the live ones are laid out
\* at the address of their key.
drop_tasks(h, d) ==
    LET live == {d.map[i] : i \in DOMAIN d.map}
        to == [a \in live |-> CHOOSE i \in DOMAIN d.map :
                    d.map[i] = a /\ \A j \in DOMAIN d.map : d.map[j] = a => i <= j]
        from == [b \in {to[a] : a \in live} |-> CHOOSE a \in live : to[a] = b]
    IN [doc |-> [d EXCEPT !.map = [i \in DOMAIN d.map |-> to[d.map[i]]]],
        heap |-> [b \in DOMAIN from |-> h[from[b]]]]

\* impl TaskMod for Rc<Task>; `count` is the strong count of the handle.
set_title(h, a, count, title) ==
    LET m == make_mut(h, a, count)
    IN [heap |-> [m.heap EXCEPT ![m.ref].title = title], ref |-> m.ref]

set_children(h, a, count, children) ==
    LET m == make_mut(h, a, count)
    IN [heap |-> [m.heap EXCEPT ![m.ref].children = children], ref |-> m.ref]

add_child(h, a, count, child) ==
    set_children(h, a, count, Append(h[a].children, child))

\* Vec::insert(index, child) panics when index > len; `panic` tells whether
\* the call unwound instead of returning.
insert_at(s, index, x) == SubSeq(s, 1, index) \o << x >> \o SubSeq(s, index + 1, Len(s))

insert_child_push(h, a, count, child, index) ==
    IF index > Len(h[a].children) THEN [heap |-> h, ref |-> a, panic |-> TRUE]
    ELSE LET s == set_children(h, a, count, Append(h[a].children, child))
         IN [heap |-> s.heap, ref |-> s.ref, panic |-> FALSE]
insert_child(h, a, count, child, index) ==
    IF index > Len(h[a].children) THEN [heap |-> h, ref |-> a, panic |-> TRUE]
    ELSE LET s == set_children(h, a, count, insert_at(h[a].children, index, child))
         IN [heap |-> s.heap, ref |-> s.ref, panic |-> FALSE]

filter_out(s, x) == SelectSeq(s, LAMBDA c : c # x)

remove_first(s, x) ==
    IF x \notin Range(s) THEN s
    ELSE LET k == CHOOSE k \in DOMAIN s : s[k] = x /\ \A j \in 1..(k - 1) : s[j] # x
         IN SubSeq(s, 1, k - 1) \o SubSeq(s, k + 1, Len(s))
remove_child_first(h, a, count, child_id) ==
    set_children(h, a, count, remove_first(h[a].children, child_id))
remove_child(h, a, count, child_id) ==
    set_children(h, a, count, filter_out(h[a].children, child_id))

\* enum Progress and Progress::done.
Progresses == {"Todo", "Work", "Done"}
done(progress) == progress = "Done"

set_progress(h, a, count, progress) ==
    LET m == make_mut(h, a, count)
    IN [heap |-> [m.heap EXCEPT ![m.ref].progress = Some(progress)], ref |-> m.ref]

\* The closures handed to modify_task: one TaskMod call on the handle, then
\* Ok(()) or an error. Those that edit the title all end in the error.
Closures ==
    {[op |-> "add_child", arg |-> c, fails |-> b] : c \in TaskIds, b \in BOOLEAN}
    \cup {[op |-> "set_title", arg |-> t, fails |-> TRUE] : t \in Titles \ {<< >>}}

call(f, h, a, count) ==
    LET s == CASE f.op = "add_child" -> add_child(h, a, count, f.arg)
               [] f.op = "remove_child" -> remove_child(h, a, count, f.arg)
               [] f.op = "set_title" -> set_title(h, a, count, f.arg)
    IN [heap |-> s.heap, ref |-> s.ref,
        ret |-> IF f.fails THEN Err("closure") ELSE Ok("unit")]

\* ---------------------------------------------------------------- Doc: tasks
\* Doc::get
get_or_root(d, id) == IF id \in DOMAIN d.map THEN Ok(d.map[id]) ELSE Ok(d.map[d.root])
get(d, id) ==
    IF id \in DOMAIN d.map THEN Ok(d.map[id]) ELSE Err("TaskUuidNotFound")

\* Doc::get_root
get_root(d) == get(d, d.root)

\* Doc::upsert: HashMap::insert under the task's own id.
upsert_alone(d, h, a) == [d EXCEPT !.map = (h[a].id :> a)]
upsert(d, h, a) ==
    [d EXCEPT !.map = [i \in (DOMAIN d.map \cup {h[a].id}) |->
                          IF i = h[a].id THEN a ELSE d.map[i]]]

\* Doc::modify_task. The handle `get` returns is shared with the map, so
\* make_mut clones it; `func` then works on the clone.
modify_task_upsert_first(d, h, id, func) ==
    LET g == get(d, id) IN
    IF ~g.ok THEN [doc |-> d, heap |-> h, ret |-> g]
    ELSE LET m == make_mut(h, g.val, task_strong_count(d, g.val) + 1)
             c == call(func, m.heap, m.ref, task_strong_count(d, m.ref) + 1)
         IN [doc |-> upsert(d, c.heap, c.ref), heap |-> c.heap,
             ret |-> IF c.ret.ok THEN Ok("unit") ELSE Err("CustomError")]
modify_task(d, h, id, func) ==
    LET g == get(d, id) IN
    IF ~g.ok THEN [doc |-> d, heap |-> h, ret |-> g]
    ELSE LET m == make_mut(h, g.val, task_strong_count(d, g.val) + 1)
             c == call(func, m.heap, m.ref, task_strong_count(d, m.ref) + 1)
         IN IF ~c.ret.ok THEN [doc |-> d, heap |-> c.heap, ret |-> Err("CustomError")]
            ELSE [doc |-> upsert(d, c.heap, c.ref), heap |-> c.heap, ret |-> Ok("unit")]

\* Doc::add_subtask; `task` is the caller's Rc<Task> handle.
add_subtask_no_parent(d, h, task, parent_ref) ==
    IF parent_ref \notin DOMAIN d.map THEN [doc |-> d, heap |-> h, ret |-> get(d, parent_ref)]
    ELSE [doc |-> upsert(d, h, task), heap |-> h, ret |-> Ok("unit")]
add_subtask(d, h, task, parent_ref) ==
    LET m == modify_task(d, h, parent_ref,
                         [op |-> "add_child", arg |-> h[task].id, fails |-> FALSE])
    IN IF ~m.ret.ok THEN m
       ELSE [doc |-> upsert(m.doc, m.heap, task), heap |-> m.heap, ret |-> Ok("unit")]

\* Doc::find_parent: the first task, in the map's iteration order, that lists
\* task_ref. HashMap iterates in an unspecified order, so with several such
\* tasks any of them can be the answer: the set of possible answers.
find_parent(d, h, task_ref) ==
    LET ps == {h[d.map[k]].id : k \in {k \in DOMAIN d.map :
                                         task_ref \in Range(h[d.map[k]].children)}}
    IN IF ps = {} THEN {NoneV} ELSE {Some(q) : q \in ps}

\* One iteration order of the task HashMap: it is fixed while the map is not
\* written, so every find_parent of one traversal scans in the same order.
orders(d) ==
    {o \in [1..Cardinality(DOMAIN d.map) -> DOMAIN d.map] :
        \A x, y \in DOMAIN o : x # y => o[x] # o[y]}

\* Doc::find_parent under the iteration order `order`.
find_parent_in(d, h, order, task_ref) ==
    LET hits == {k \in DOMAIN order : task_ref \in Range(h[d.map[order[k]]].children)}
    IN IF hits = {} THEN NoneV
       ELSE Some(h[d.map[order[CHOOSE k \in hits : \A j \in hits : k <= j]]].id)

\* The functions from id to parent that find_parent can be during a traversal.
parent_maps(d, h) ==
    {[x \in TaskIds |-> find_parent_in(d, h, o, x)] : o \in orders(d)}

\* The hop bound of Doc::is_in_hierarchy_of.
HopLimit == 200

\* Doc::is_in_hierarchy_of with find_parent answering by `pm`. One pass of
\* its loop, on the loop's variables; `done` and `val` are set by a return and
\* `links` counts the find_parent calls made.
hierarchy_pass_late(pm, parent_task, st) ==
    IF st.counter = HopLimit + 1 THEN [st EXCEPT !.done = TRUE, !.val = FALSE]
    ELSE IF st.tmp_task = parent_task
         THEN [st EXCEPT !.done = TRUE, !.val = TRUE, !.counter = @ + 1]
    ELSE IF IsSome(pm[st.tmp_task])
         THEN [st EXCEPT !.tmp_task = Unwrap(pm[st.tmp_task]), !.counter = @ + 1,
                         !.links = @ + 1]
         ELSE [st EXCEPT !.done = TRUE, !.val = FALSE, !.counter = @ + 1]
hierarchy_pass_above(pm, parent_task, st) ==
    IF st.counter = HopLimit THEN [st EXCEPT !.done = TRUE, !.val = FALSE]
    ELSE IF IsSome(pm[st.tmp_task])
         THEN IF Unwrap(pm[st.tmp_task]) = parent_task
              THEN [st EXCEPT !.done = TRUE, !.val = TRUE, !.counter = @ + 1,
                              !.links = @ + 1]
              ELSE [st EXCEPT !.tmp_task = Unwrap(pm[st.tmp_task]), !.counter = @ + 1,
                              !.links = @ + 1]
         ELSE [st EXCEPT !.done = TRUE, !.val = FALSE, !.counter = @ + 1]
hierarchy_pass(pm, parent_task, st) ==
    IF st.counter = HopLimit THEN [st EXCEPT !.done = TRUE, !.val = FALSE]
    ELSE IF st.tmp_task = parent_task
         THEN [st EXCEPT !.done = TRUE, !.val = TRUE, !.counter = @ + 1]
    ELSE IF IsSome(pm[st.tmp_task])
         THEN [st EXCEPT !.tmp_task = Unwrap(pm[st.tmp_task]), !.counter = @ + 1,
                         !.links = @ + 1]
         ELSE [st EXCEPT !.done = TRUE, !.val = FALSE, !.counter = @ + 1]

\* `n` passes of the loop, or fewer when one returns (the passes are split in
\* halves to keep the evaluation shallow).
RECURSIVE hierarchy_passes(_, _, _, _)
hierarchy_passes(pm, parent_task, st, n) ==
    IF st.done \/ n = 0 THEN st
    ELSE IF n = 1 THEN hierarchy_pass(pm, parent_task, st)
    ELSE hierarchy_passes(pm, parent_task,
                          hierarchy_passes(pm, parent_task, st, n \div 2), n - (n \div 2))

\* The loop from its start to its return: it returns within HopLimit + 2 passes.
hierarchy_loop(pm, child_task, parent_task) ==
    hierarchy_passes(pm, parent_task,
                     [tmp_task |-> child_task, counter |-> 0, links |-> 0,
                      done |-> FALSE, val |-> FALSE], HopLimit + 2)

is_in_hierarchy_of(pm, child_task, parent_task) ==
    hierarchy_loop(pm, child_task, parent_task).val

\* Doc::path with find_parent answering by `pm`. The loop ends at a task
\* without parent; when it comes to an id it has pushed before it goes round
\* for ever, pushing until the memory is used up: `returns` is FALSE.
RECURSIVE path_loop(_, _, _)
path_loop(pm, task_ref_opt, res) ==
    IF task_ref_opt = NoneV THEN [returns |-> TRUE, val |-> res]
    ELSE IF Unwrap(task_ref_opt) \in Range(res) THEN [returns |-> FALSE]
    ELSE path_loop(pm, pm[Unwrap(task_ref_opt)], Append(res, Unwrap(task_ref_opt)))

path(pm, task_ref) == path_loop(pm, Some(task_ref), << >>)

\* ------------------------------------------------------------ clock queries
\* One iteration order of the clock HashMap.
clock_orders(d) ==
    {o \in [1..Cardinality(DOMAIN d.clocks) -> DOMAIN d.clocks] :
        \A x, y \in DOMAIN o : x # y => o[x] # o[y]}

\* The second filter of day_clock and range_clock on the clock at `a`; `pm` is
\* what find_parent answers during the call.
in_scope(h, a, main_task, pm) ==
    IF IsSome(h[a].task_id)
    THEN IF IsSome(main_task) THEN is_in_hierarchy_of(pm, Unwrap(h[a].task_id), Unwrap(main_task))
         ELSE TRUE
    ELSE TRUE

\* Doc::day_clock: self.clocks.values() in the order `order`, filtered twice.
day_clock_any_task(d, h, order, day, main_task, pm) ==
    SelectSeq([k \in DOMAIN order |-> d.clocks[order[k]]],
              LAMBDA a : date(h[a].start) = day)
day_clock(d, h, order, day, main_task, pm) ==
    SelectSeq(SelectSeq([k \in DOMAIN order |-> d.clocks[order[k]]],
                        LAMBDA a : date(h[a].start) = day),
              LAMBDA a : in_scope(h, a, main_task, pm))

\* Doc::range_clock
range_clock_open_end(d, h, order, start, end, main_task, pm) ==
    SelectSeq(SelectSeq([k \in DOMAIN order |-> d.clocks[order[k]]],
                        LAMBDA a : date(h[a].start) >= start /\ date(h[a].start) < end),
              LAMBDA a : in_scope(h, a, main_task, pm))
range_clock(d, h, order, start, end, main_task, pm) ==
    SelectSeq(SelectSeq([k \in DOMAIN order |-> d.clocks[order[k]]],
                        LAMBDA a : date(h[a].start) >= start /\ date(h[a].start) <= end),
              LAMBDA a : in_scope(h, a, main_task, pm))

\* ------------------------------------------------------------ tree commands
\* usize subtraction `i - 1` of the commands: with i = 0 a build with overflow
\* checks panics and one without wraps to usize::MAX, which is beyond every
\* Vec length. UsizeMax stands for it.
UsizeMax == 2147483647
sub_one(i) == IF i = 0 THEN {[panic |-> TRUE], [panic |-> FALSE, val |-> UsizeMax]}
              ELSE {[panic |-> FALSE, val |-> i - 1]}

\* The start, end and enddate commands of the clock edit terminal on a line
\* whose tokens parse: `index` and `arg` are the second and third token, each
\* present or not. The setter is called with `i - 1`, and only when the third
\* token is there. Each element is an outcome the build can produce; `ret` is
\* what the command's closure returns.
CommandSetter(cmd) ==
    CASE cmd = "start" -> "set_start_time"
      [] cmd = "end" -> "set_end_time"
      [] cmd = "enddate" -> "set_end_date"
edit_command(d, e, h, cmd, index, arg, single) ==
    IF index = NoneV
    THEN {[edit |-> e, heap |-> h, panic |-> FALSE, ret |-> Err("UnsufficientInput")]}
    ELSE IF arg = NoneV
    THEN {[edit |-> e, heap |-> h, panic |-> FALSE, ret |-> Ok(FALSE)]}
    ELSE {IF s.panic THEN [edit |-> e, heap |-> h, panic |-> TRUE]
          ELSE LET r == modify_clock(d, e, h, s.val,
                                     [op |-> CommandSetter(cmd), arg |-> Unwrap(arg)], single)
               IN [edit |-> r.edit, heap |-> r.heap, panic |-> FALSE,
                   ret |-> IF r.ret.ok THEN Ok(FALSE) ELSE r.ret] :
          s \in sub_one(Unwrap(index))}

\* Terminal::run_command: whether the terminal's loop ends after a command
\* that returned `ret`; an error is printed and the loop goes on.
run_command(ret) == IF ret.ok THEN ret.val ELSE FALSE

\* The reorder command on the working task `wt`: children[idx_from - 1] is
\* taken out and put back at idx_to - 1. Indexing past the end, Vec::insert
\* past the end and an overflowing `- 1` all panic.
reorder(d, h, wt, idx_from, idx_to) ==
    LET task == get(d, wt).val IN
    IF idx_from = 0 \/ idx_from > Len(h[task].children) \/ idx_to = 0
    THEN [doc |-> d, heap |-> h, panic |-> TRUE]
    ELSE LET from_id == h[task].children[idx_from]
             r == remove_child(h, task, task_strong_count(d, task) + 1, from_id)
             i == insert_child(r.heap, r.ref, task_strong_count(d, r.ref) + 1, from_id, idx_to - 1)
         IN IF i.panic THEN [doc |-> d, heap |-> h, panic |-> TRUE]
            ELSE [doc |-> upsert(d, i.heap, i.ref), heap |-> i.heap, panic |-> FALSE]

\* The rm command on the working task: children[i - 1] is detached.
rm_delete(d, h, wt, i) ==
    LET task == get(d, wt).val IN
    IF i = 0 \/ i > Len(h[task].children) THEN [doc |-> d, heap |-> h, panic |-> TRUE]
    ELSE LET r == remove_child(h, task, task_strong_count(d, task) + 1, h[task].children[i])
             u == upsert(d, r.heap, r.ref)
         IN [doc |-> [u EXCEPT !.map = [k \in DOMAIN u.map \ {h[task].children[i]} |-> u.map[k]]],
             heap |-> r.heap, panic |-> FALSE]
rm(d, h, wt, i) ==
    LET task == get(d, wt).val IN
    IF i = 0 \/ i > Len(h[task].children) THEN [doc |-> d, heap |-> h, panic |-> TRUE]
    ELSE LET r == remove_child(h, task, task_strong_count(d, task) + 1, h[task].children[i])
         IN [doc |-> upsert(d, r.heap, r.ref), heap |-> r.heap, panic |-> FALSE]

\* The mv command: dest_id is detached from the parent find_parent gives and
\* appended under to_id; Doc::get of a to_id the map lacks panics (unwrap),
\* after the parent was stored. The outcomes, one per answer of find_parent.
mv_from(d, h, p, dest_id, to_id) ==
    IF p = NoneV THEN [doc |-> d, heap |-> h, panic |-> FALSE]
    ELSE LET parent == get(d, Unwrap(p)).val
             r == remove_child(h, parent, task_strong_count(d, parent) + 1, dest_id)
             d1 == upsert(d, r.heap, r.ref)
         IN IF ~get(d1, to_id).ok THEN [doc |-> d, heap |-> h, panic |-> TRUE]
            ELSE LET task == get(d1, to_id).val
                     c == add_child(r.heap, task, task_strong_count(d1, task) + 1, dest_id)
                 IN [doc |-> upsert(d1, c.heap, c.ref), heap |-> c.heap, panic |-> FALSE]
mv(d, h, dest_id, to_id) == {mv_from(d, h, p, dest_id, to_id) : p \in find_parent(d, h, dest_id)}

\* ------------------------------------------------------------------ lookups
\* Doc::task_child: the child at the 0-based index i.
task_child(d, h, task_id, i) ==
    IF ~get(d, task_id).ok THEN NoneV
    ELSE LET task == h[get(d, task_id).val] IN
         IF i < Len(task.children) THEN Some(task.children[i + 1]) ELSE NoneV

\* str::to_lowercase and str::replace, character by character, on the
\* characters of the titles and prefixes used here.
lower(c) == CASE c = "A" -> "a" [] c = "B" -> "b" [] OTHER -> c
to_lowercase(s) == [k \in DOMAIN s |-> lower(s[k])]
replace(s, from, to) == [k \in DOMAIN s |-> IF s[k] = from THEN to ELSE s[k]]
starts_with(s, p) == Len(p) <= Len(s) /\ SubSeq(s, 1, Len(p)) = p

\* Doc::task_child_prefix: the loop over the children leaves with None at a
\* child id the map has no task for (`self.get(child).ok()?`).
RECURSIVE prefix_loop(_, _, _, _, _)
prefix_loop(d, h, children, k, prefix) ==
    IF k > Len(children) THEN NoneV
    ELSE IF ~get(d, children[k]).ok THEN NoneV
    ELSE LET title == replace(to_lowercase(h[get(d, children[k]).val].title), " ", "_")
         IN IF starts_with(title, prefix) THEN Some(children[k])
            ELSE prefix_loop(d, h, children, k + 1, prefix)

task_child_prefix(d, h, task_id, prefix) ==
    IF ~get(d, task_id).ok THEN NoneV
    ELSE prefix_loop(d, h, h[get(d, task_id).val].children, 1,
                     replace(to_lowercase(prefix), " ", "_"))

\* str::split("/"): the pieces between the separators, empty ones included.
RECURSIVE split(_, _)
split(s, sep) ==
    IF \A k \in DOMAIN s : s[k] # sep THEN << s >>
    ELSE LET k == CHOOSE k \in DOMAIN s : s[k] = sep /\ \A j \in 1..(k - 1) : s[j] # sep
         IN << SubSeq(s, 1, k - 1) >> \o split(SubSeq(s, k + 1, Len(s)), sep)

\* part.parse::<usize>(): decimal digits after an optional "+".
Digits == << "0", "1", "2", "3", "4", "5", "6", "7", "8", "9" >>
digit(c) == (CHOOSE k \in DOMAIN Digits : Digits[k] = c) - 1
RECURSIVE from_digits(_)
from_digits(s) ==
    IF s = << >> THEN 0
    ELSE Len(Digits) * from_digits(SubSeq(s, 1, Len(s) - 1)) + digit(s[Len(s)])
parse_usize(part) ==
    LET ds == IF part # << >> /\ part[1] = "+" THEN Tail(part) ELSE part
    IN IF ds # << >> /\ (\A k \in DOMAIN ds : ds[k] \in Range(Digits))
                     /\ from_digits(ds) <= UsizeMax
       THEN Ok(from_digits(ds)) ELSE Err("ParseIntError")

\* One round of the loop of State::uuid_for_path: the outcomes of a part of
\* the path on current_task. No part used here has the 32 hexadecimal digits
\* of a Uuid.
uuid_for_part(d, h, current_task, part) ==
    IF parse_usize(part).ok
    THEN IF IsSome(current_task)
         THEN {IF s.panic THEN [panic |-> TRUE]
               ELSE [panic |-> FALSE,
                     val |-> task_child(d, h, Unwrap(current_task), s.val)] :
                  s \in sub_one(parse_usize(part).val)}
         ELSE {[panic |-> FALSE, val |-> NoneV]}
    ELSE IF part = << ".", "." >>
    THEN IF IsSome(current_task)
         THEN {[panic |-> FALSE, val |-> q] : q \in find_parent(d, h, Unwrap(current_task))}
         ELSE {[panic |-> FALSE, val |-> current_task]}
    ELSE IF part = << >>
    THEN {[panic |-> FALSE, val |-> current_task]}
    ELSE IF IsSome(current_task)
         THEN {[panic |-> FALSE, val |-> task_child_prefix(d, h, Unwrap(current_task), part)]}
         ELSE {[panic |-> FALSE, val |-> current_task]}

RECURSIVE uuid_for_parts(_, _, _, _)
uuid_for_parts(d, h, current_task, parts) ==
    IF parts = << >> THEN {[panic |-> FALSE, val |-> current_task]}
    ELSE UNION {IF o.panic THEN {o} ELSE uuid_for_parts(d, h, o.val, Tail(parts)) :
                   o \in uuid_for_part(d, h, current_task, Head(parts))}

\* State::uuid_for_path with the working task `wt`.
uuid_for_path(d, h, wt, p) ==
    uuid_for_parts(d, h, IF starts_with(p, << "/" >>) THEN Some(d.root) ELSE Some(wt),
                   split(p, "/"))

\* Doc::progress_summary: the fold over the children that the map has a task
\* for and that have a progress; (done, sum) is a pair of i32.
RECURSIVE summary_fold_all(_, _, _, _, _)
summary_fold_all(d, h, children, k, acc) ==
    IF k > Len(children) THEN acc
    ELSE IF ~get(d, children[k]).ok
    THEN summary_fold_all(d, h, children, k + 1, acc)
    ELSE LET progress == h[get(d, children[k]).val].progress IN
         summary_fold_all(d, h, children, k + 1,
             << acc[1] + (IF IsSome(progress) /\ done(Unwrap(progress)) THEN 1 ELSE 0),
                acc[2] + 1 >>)
RECURSIVE summary_fold(_, _, _, _, _)
summary_fold(d, h, children, k, acc) ==
    IF k > Len(children) THEN acc
    ELSE IF ~get(d, children[k]).ok
    THEN summary_fold(d, h, children, k + 1, acc)
    ELSE LET progress == h[get(d, children[k]).val].progress IN
         IF ~IsSome(progress) THEN summary_fold(d, h, children, k + 1, acc)
         ELSE summary_fold(d, h, children, k + 1,
                  << acc[1] + (IF done(Unwrap(progress)) THEN 1 ELSE 0), acc[2] + 1 >>)

progress_summary(d, h, task_ref) ==
    IF ~get(d, task_ref).ok THEN get(d, task_ref)
    ELSE Ok(summary_fold(d, h, h[get(d, task_ref).val].children, 1, << 0, 0 >>))

\* The stored tasks by value (what Doc::get(id) dereferences to).
TaskOf(id) == task_heap[doc.map[id]]
StoredTasks == [i \in DOMAIN doc.map |-> TaskOf(i)]
Sum(f) ==
    LET RECURSIVE S(_)
        S(D) == IF D = {} THEN 0 ELSE LET x == CHOOSE x \in D : TRUE IN f[x] + S(D \ {x})
    IN S(DOMAIN f)
Links == Sum([i \in DOMAIN doc.map |-> Len(TaskOf(i).children)])

\* ------------------------------------------------------------------ Doc::new
\* Task::new with the id Uuid::new_v4() returned.
task_new(id) ==
    [id |-> id, title |-> << >>, body |-> "", children |-> << >>, progress |-> NoneV]

doc_new(id) ==
    [doc |-> [map |-> (id :> 1), clocks |-> << >>, current_clock |-> NoneV, root |-> id],
     task_heap |-> (1 :> task_new(id))]

NoNews == [ids |-> << >>, clean |-> << >>]

Init ==
    /\ \E id \in new_v4(TaskIds, {}) :
          /\ doc = doc_new(id).doc
          /\ task_heap = doc_new(id).task_heap
    /\ clock_heap = << >>
    /\ edit = NoneV
    /\ now = 0
    /\ last = [op |-> "new"]
    /\ news = NoNews
    /\ spent = [opened |-> FALSE, edits |-> 0]

\* Doc::load: serde fills the four fields from the file and checks nothing
\* that relates them. The files: a root task, at most MaxLoaded clocks, each
\* under its own id, open or closed, and a register that is empty or holds the
\* id of one of them or an id the file has no clock for.
LoadedClocks ==
    {[id |-> i, start |-> 0, end |-> e, comment |-> NoneV, task_id |-> NoneV] :
        i \in 1..MaxLoaded, e \in {NoneV, Some(0)}}

load(root, cs, cur) ==
    [doc |-> [map |-> (root :> 1),
              clocks |-> [i \in {c.id : c \in cs} |-> i],
              current_clock |-> cur, root |-> root],
     task_heap |-> (1 :> task_new(root)),
     clock_heap |-> [i \in {c.id : c \in cs} |-> CHOOSE c \in cs : c.id = i]]

InitLoad ==
    /\ \E cs \in SUBSET LoadedClocks, cur \in {NoneV} \cup {Some(i) : i \in 1..(MaxLoaded + 1)} :
          /\ \A c1, c2 \in cs : c1.id = c2.id => c1 = c2
          /\ \A c \in cs : \A i \in 1..c.id : \E c2 \in cs : c2.id = i
          /\ doc = load(1, cs, cur).doc
          /\ task_heap = load(1, cs, cur).task_heap
          /\ clock_heap = load(1, cs, cur).clock_heap
    /\ edit = NoneV
    /\ now = 0
    /\ last = [op |-> "load"]
    /\ news = NoNews
    /\ spent = [opened |-> FALSE, edits |-> 0]

\* ----------------------------------------------------------------- the file
\* serde_json's text for the values of a Doc. An Option is null or the value;
\* a Uuid, a String and a Progress are strings; a DateTime<Local> is its
\* RFC 3339 text, which spells the date and the time of day (with the offset
\* of the local zone, the same at writing and at reading).
json_null == [null |-> TRUE]
json_string(s) == [string |-> s]
datetime_to_json(t) == [date |-> date(t), time |-> time(t)]
datetime_from_json(j) == j.date * TicksPerDay + j.time

task_to_json(t) ==
    [id |-> json_string(t.id), title |-> json_string(t.title),
     body |-> json_string(t.body),
     children |-> [k \in DOMAIN t.children |-> json_string(t.children[k])],
     progress |-> IF t.progress = NoneV THEN json_null
                  ELSE json_string(Unwrap(t.progress))]
task_from_json(j) ==
    [id |-> j.id.string, title |-> j.title.string, body |-> j.body.string,
     children |-> [k \in DOMAIN j.children |-> j.children[k].string],
     progress |-> IF j.progress = json_null THEN NoneV ELSE Some(j.progress.string)]

clock_to_json(c) ==
    [id |-> json_string(c.id), start |-> datetime_to_json(c.start),
     end |-> IF c.end = NoneV THEN json_null ELSE datetime_to_json(Unwrap(c.end)),
     comment |-> IF c.comment = NoneV THEN json_null ELSE json_string(Unwrap(c.comment)),
     task_id |-> IF c.task_id = NoneV THEN json_null ELSE json_string(Unwrap(c.task_id))]
clock_from_json(j) ==
    [id |-> j.id.string, start |-> datetime_from_json(j.start),
     end |-> IF j.end = json_null THEN NoneV ELSE Some(datetime_from_json(j.end)),
     comment |-> IF j.comment = json_null THEN NoneV ELSE Some(j.comment.string),
     task_id |-> IF j.task_id = json_null THEN NoneV ELSE Some(j.task_id.string)]

\* serde_json::to_writer on a Doc: the Rc handles are written as the values
\* they point to, each under its key.
to_writer(d, th, ch) ==
    [map |-> [i \in DOMAIN d.map |-> task_to_json(th[d.map[i]])],
     clocks |-> [i \in DOMAIN d.clocks |-> clock_to_json(ch[d.clocks[i]])],
     current_clock |-> IF d.current_clock = NoneV THEN json_null
                       ELSE json_string(Unwrap(d.current_clock)),
     root |-> json_string(d.root)]

\* Doc::save: File::create may fail; the text is written otherwise.
save(d, th, ch, created) ==
    IF created THEN [ret |-> Ok("unit"), file |-> Some(to_writer(d, th, ch))]
    ELSE [ret |-> Err("IO"), file |-> NoneV]

\* serde_json::from_reader: every value gets an allocation of its own.
from_reader_no_clocks(file) ==
    [doc |-> [map |-> [i \in DOMAIN file.map |-> i],
              clocks |-> << >>,
              current_clock |-> IF file.current_clock = json_null THEN NoneV
                                ELSE Some(file.current_clock.string),
              root |-> file.root.string],
     task_heap |-> [i \in DOMAIN file.map |-> task_from_json(file.map[i])],
     clock_heap |-> << >>]
from_reader(file) ==
    [doc |-> [map |-> [i \in DOMAIN file.map |-> i],
              clocks |-> [i \in DOMAIN file.clocks |-> i],
              current_clock |-> IF file.current_clock = json_null THEN NoneV
                                ELSE Some(file.current_clock.string),
              root |-> file.root.string],
     task_heap |-> [i \in DOMAIN file.map |-> task_from_json(file.map[i])],
     clock_heap |-> [i \in DOMAIN file.clocks |-> clock_from_json(file.clocks[i])]]

\* ------------------------------------------------------------------ actions
\* The Doc and the clock allocations after an operation on the Doc returned
\* `r`; the session keeps its handles.
Settle(r) ==
    LET n == drop_clocks(r.heap, r.doc, edit) IN
    /\ doc' = n.doc
    /\ clock_heap' = n.heap
    /\ edit' = n.edit

\* Time passes between two calls.
Tick ==
    /\ now < MaxTime
    /\ now' = now + 1
    /\ last' = [op |-> "tick"]
    /\ UNCHANGED << doc, task_heap, clock_heap, edit, news, spent >>

ClockOut ==
    LET r == clock_out(doc, clock_heap, now) IN
    /\ Settle(r)
    /\ last' = [op |-> "clock_out", ret |-> r.ret]
    /\ news' = NoNews
    /\ UNCHANGED << task_heap, now, spent >>

\* Every open clock is the one the register references, and the register
\* references a stored clock or none.
RegisterClean ==
    /\ \A i \in DOMAIN doc.clocks : ClockOf(i).end = NoneV => doc.current_clock = Some(i)
    /\ IsSome(doc.current_clock) => Unwrap(doc.current_clock) \in DOMAIN doc.clocks

\* clock_new while the store holds fewer than `cap` clocks; up to `span` ticks
\* pass between its two readings of the time.
ClockNewCap(cap, span) ==
    /\ Cardinality(DOMAIN doc.clocks) < cap
    /\ \E id \in new_v4(ClockIds, DOMAIN doc.clocks \cup Range(doc.current_clock)) :
       \E t2 \in {t \in Times : now <= t /\ t <= now + span} :
        LET r == clock_new(doc, clock_heap, now, t2, id) IN
        /\ Settle(r)
        /\ now' = IF r.ret.ok THEN t2 ELSE now
        /\ last' = [op |-> "clock_new",
                    ret |-> IF r.ret.ok THEN Ok(r.heap[r.ret.val]) ELSE r.ret]
        /\ news' = IF r.ret.ok
                   THEN IF Len(news.ids) = 0
                        THEN [ids |-> << id >>, clean |-> << RegisterClean >>]
                        ELSE [ids |-> << news.ids[Len(news.ids)], id >>,
                              clean |-> << news.clean[Len(news.ids)], RegisterClean >>]
                   ELSE NoNews
        /\ UNCHANGED << task_heap, spent >>

ClockNew == ClockNewCap(MaxClocks, 1)

\* On a loaded Doc: two more clocks than the file held.
ClockNewLoaded == ClockNewCap(MaxLoaded + 2, 0)

\* clock_assign takes any id and looks no task up: the root's id, or an id the
\* Doc has no task for. `was` is the task_id the active clock had before.
ClockAssign ==
    \E task_ref \in {doc.root} \cup new_v4(TaskIds, DOMAIN doc.map) :
        LET r == clock_assign(doc, clock_heap, task_ref) IN
        /\ Settle(r)
        /\ last' = [op |-> "clock_assign", task_ref |-> task_ref, ret |-> r.ret,
                    was |-> IF IsSome(doc.current_clock) /\ clock(doc, Unwrap(doc.current_clock)).ok
                            THEN ClockOf(Unwrap(doc.current_clock)).task_id ELSE NoneV]
        /\ news' = NoNews
        /\ UNCHANGED << task_heap, now, spent >>

ClockComment ==
    \E comment \in Comments :
        LET r == clock_comment(doc, clock_heap, comment) IN
        /\ Settle(r)
        /\ last' = [op |-> "clock_comment", comment |-> comment, ret |-> r.ret]
        /\ news' = NoNews
        /\ UNCHANGED << task_heap, now, spent >>

\* The Doc and the task allocations after an operation on the Doc returned `r`.
SettleTasks(r) ==
    LET n == drop_tasks(r.heap, r.doc) IN
    /\ doc' = n.doc
    /\ task_heap' = n.heap

\* No task but `parent_ref` lists the id of task value `t`, which is neither
\* the parent itself nor its own child.
OnlyParent(t, parent_ref) ==
    /\ t.id # parent_ref
    /\ t.id \notin Range(t.children)
    /\ \A q \in DOMAIN doc.map \ {parent_ref, t.id} : t.id \notin Range(TaskOf(q).children)

\* add_subtask with a handle the caller made with Rc::new(Task::new()), or one
\* it got from Doc::get.
AddSubtaskTo(parents) ==
    /\ Links < MaxLinks
    /\ \E parent_ref \in parents :
       \E arg \in {[new |-> TRUE, id |-> i] : i \in new_v4(TaskIds, DOMAIN doc.map)}
                 \cup {[new |-> FALSE, id |-> i] : i \in DOMAIN doc.map} :
        LET n == IF arg.new THEN rc_new(task_heap, task_new(arg.id))
                 ELSE [heap |-> task_heap, ref |-> get(doc, arg.id).val]
            r == add_subtask(doc, n.heap, n.ref, parent_ref)
        IN /\ SettleTasks(r)
           /\ last' = [op |-> "add_subtask", task_id |-> arg.id,
                       parent |-> parent_ref, ret |-> r.ret,
                       only |-> OnlyParent(n.heap[n.ref], parent_ref)]
           /\ UNCHANGED << clock_heap, edit, now, news, spent >>

AddSubtask == AddSubtaskTo(TaskIds)

ModifyTask ==
    \E id \in TaskIds, f \in Closures :
        LET r == modify_task(doc, task_heap, id, f) IN
        /\ f.op = "add_child" => Links < MaxLinks
        /\ SettleTasks(r)
        /\ last' = [op |-> "modify_task", id |-> id, func |-> f, ret |-> r.ret]
        /\ UNCHANGED << clock_heap, edit, now, news, spent >>

\* The task tree alone, from Doc::new().
NextTask == AddSubtask \/ ModifyTask
SpecTask == Init /\ [][NextTask]_vars

\* A panic unwinds out of main: the process is gone.
Running == ~("panic" \in DOMAIN last /\ last.panic)

TreeAddSubtask == Running /\ AddSubtask

\* add_subtask under the root only: the root's children list grows.
RootAddSubtask == Running /\ AddSubtaskTo({doc.root})

\* modify_task on a task of `ids` with a closure that calls add_child: the id
\* of any stored task can be listed, the task's own too.
AddChildTo(ids) ==
    /\ Running
    /\ Links < MaxLinks
    /\ \E id \in ids, c \in DOMAIN doc.map :
        LET f == [op |-> "add_child", arg |-> c, fails |-> FALSE]
            r == modify_task(doc, task_heap, id, f)
        IN /\ SettleTasks(r)
           /\ last' = [op |-> "modify_task", id |-> id, func |-> f, ret |-> r.ret]
    /\ UNCHANGED << clock_heap, edit, now, news, spent >>

AddChild == AddChildTo({doc.root})
AddChildAny == AddChildTo(DOMAIN doc.map)

\* modify_task with a closure that calls remove_child.
RemoveChild ==
    /\ Running
    /\ \E id \in DOMAIN doc.map, c \in TaskIds :
        LET f == [op |-> "remove_child", arg |-> c, fails |-> FALSE]
            r == modify_task(doc, task_heap, id, f)
        IN /\ SettleTasks(r)
           /\ last' = [op |-> "modify_task", id |-> id, func |-> f, ret |-> r.ret]
    /\ UNCHANGED << clock_heap, edit, now, news, spent >>

\* The commands of the terminal, on the working task `wt`: the root, where the
\* terminal starts.
Reorder ==
    /\ Running
    /\ \E wt \in {doc.root} :
       \E idx_from, idx_to \in 0..(Len(TaskOf(wt).children) + 1) :
        LET r == reorder(doc, task_heap, wt, idx_from, idx_to) IN
        /\ SettleTasks(r)
        /\ last' = [op |-> "reorder", wt |-> wt, idx_from |-> idx_from, idx_to |-> idx_to,
                    panic |-> r.panic]
    /\ UNCHANGED << clock_heap, edit, now, news, spent >>

Rm ==
    /\ Running
    /\ \E wt \in {doc.root} : \E i \in 0..(Len(TaskOf(wt).children) + 1) :
        LET r == rm(doc, task_heap, wt, i) IN
        /\ SettleTasks(r)
        /\ last' = [op |-> "rm", wt |-> wt, i |-> i, panic |-> r.panic]
    /\ UNCHANGED << clock_heap, edit, now, news, spent >>

Mv ==
    /\ Running
    /\ \E dest_id, to_id \in TaskIds : \E r \in mv(doc, task_heap, dest_id, to_id) :
        /\ SettleTasks(r)
        /\ last' = [op |-> "mv", dest_id |-> dest_id, to_id |-> to_id, panic |-> r.panic]
    /\ UNCHANGED << clock_heap, edit, now, news, spent >>

\* The children list of the root under the reordering operations.
NextReorder == RootAddSubtask \/ AddChild \/ RemoveChild \/ Reorder \/ Rm
SpecReorder == Init /\ [][NextReorder]_vars

\* The task tree as add_subtask and add_child build it.
NextHierarchy == TreeAddSubtask \/ AddChildAny
SpecHierarchy == Init /\ [][NextHierarchy]_vars

\* The task tree under the re-parenting operations.
NextTree == TreeAddSubtask \/ Mv
SpecTree == Init /\ [][NextTree]_vars

\* The titles of the tasks a caller files, the prefixes it looks for and the
\* paths it types.
ChildTitles == {<< "A", " ", "b" >>, << "b" >>}
Prefixes == {<< >>, << "a", "_" >>, << "A", " " >>, << "b" >>, << "a", "_", "b", "c" >>}
Paths == {<< "0" >>, << "1" >>, << "2" >>, << "0", "2" >>, << "3" >>, << "4" >>, << "5" >>,
          << "/", "1" >>, << "1", "/", "1" >>, << ".", "." >>, << "b" >>}

\* A task made with Rc::new(Task::new()), given a title and filed under a
\* stored task.
AddTitledSubtask ==
    /\ Running
    /\ Links < MaxLinks
    /\ \E parent_ref \in DOMAIN doc.map, id \in new_v4(TaskIds, DOMAIN doc.map),
          title \in ChildTitles :
        LET n == rc_new(task_heap, task_new(id))
            t == set_title(n.heap, n.ref, 1, title)
            r == add_subtask(doc, t.heap, t.ref, parent_ref)
        IN /\ SettleTasks(r)
           /\ last' = [op |-> "add_subtask", task_id |-> id, parent |-> parent_ref,
                       ret |-> r.ret, only |-> OnlyParent(t.heap[t.ref], parent_ref)]
    /\ UNCHANGED << clock_heap, edit, now, news, spent >>

\* modify_task with a closure that calls add_child with any id, one the map
\* has no task for too.
AddChildId ==
    /\ Running
    /\ Links < MaxLinks
    /\ \E id \in DOMAIN doc.map, c \in TaskIds :
        LET f == [op |-> "add_child", arg |-> c, fails |-> FALSE]
            r == modify_task(doc, task_heap, id, f)
        IN /\ SettleTasks(r)
           /\ last' = [op |-> "modify_task", id |-> id, func |-> f, ret |-> r.ret]
    /\ UNCHANGED << clock_heap, edit, now, news, spent >>

TaskChildPrefix ==
    /\ Running
    /\ \E task_id \in TaskIds, prefix \in Prefixes :
        last' = [op |-> "task_child_prefix", task_id |-> task_id, prefix |-> prefix,
                 ret |-> task_child_prefix(doc, task_heap, task_id, prefix)]
    /\ UNCHANGED << doc, task_heap, clock_heap, edit, now, news, spent >>

UuidForPath ==
    /\ Running
    /\ \E wt \in DOMAIN doc.map, p \in Paths :
       \E o \in uuid_for_path(doc, task_heap, wt, p) :
        last' = [op |-> "uuid_for_path", wt |-> wt, path |-> p, panic |-> o.panic,
                 ret |-> IF o.panic THEN NoneV ELSE o.val]
    /\ UNCHANGED << doc, task_heap, clock_heap, edit, now, news, spent >>

\* The task tree with titles, and the lookups of children in it.
NextLookup == AddTitledSubtask \/ AddChildId \/ TaskChildPrefix \/ UuidForPath
SpecLookup == Init /\ [][NextLookup]_vars

\* The ids of a root and the tasks filed under it.
ProgressIds == 1..(MaxChildren + 1)

\* The root and the first task filed under it.
RootAndFirst ==
    {doc.root} \cup (IF TaskOf(doc.root).children = << >> THEN {}
                     ELSE {Head(TaskOf(doc.root).children)} \cap DOMAIN doc.map)

\* A task made with Rc::new(Task::new()), left without progress or given one
\* with set_progress, and filed under the root or under its first task.
AddProgressSubtask ==
    /\ Running
    /\ Links < MaxChildren
    /\ \E parent_ref \in RootAndFirst, id \in new_v4(ProgressIds, DOMAIN doc.map),
          p \in {NoneV} \cup {Some(x) : x \in Progresses} :
        LET n == rc_new(task_heap, task_new(id))
            t == IF IsSome(p) THEN set_progress(n.heap, n.ref, 1, Unwrap(p)) ELSE n
            r == add_subtask(doc, t.heap, t.ref, parent_ref)
        IN /\ SettleTasks(r)
           /\ last' = [op |-> "add_subtask", task_id |-> id, parent |-> parent_ref,
                       ret |-> r.ret, only |-> OnlyParent(t.heap[t.ref], parent_ref)]
    /\ UNCHANGED << clock_heap, edit, now, news, spent >>

\* modify_task on the root with a closure that calls add_child with an id the
\* map has no task for.
ListUnstored ==
    /\ Running
    /\ Links < MaxChildren
    /\ \E c \in new_v4(ProgressIds, DOMAIN doc.map) :
        LET f == [op |-> "add_child", arg |-> c, fails |-> FALSE]
            r == modify_task(doc, task_heap, doc.root, f)
        IN /\ SettleTasks(r)
           /\ last' = [op |-> "modify_task", id |-> doc.root, func |-> f, ret |-> r.ret]
    /\ UNCHANGED << clock_heap, edit, now, news, spent >>

ProgressSummary ==
    /\ Running
    /\ \E task_ref \in RootAndFirst \cup new_v4(ProgressIds, DOMAIN doc.map) :
        last' = [op |-> "progress_summary", task_ref |-> task_ref,
                 ret |-> progress_summary(doc, task_heap, task_ref)]
    /\ UNCHANGED << doc, task_heap, clock_heap, edit, now, news, spent >>

\* The progress of the tasks of a tree and its summary.
NextProgress == AddProgressSubtask \/ ListUnstored \/ ProgressSummary
SpecProgress == Init /\ [][NextProgress]_vars

\* An optional task id: the scope of a query, the task of a clock.
Scopes == {NoneV} \cup {Some(t) : t \in TaskIds}

\* A file with every task of TaskIds, the first two of them filed under the
\* root and each later one under the task before it, and with up to MaxClocks
\* closed clocks, each started later than the one before and assigned to any
\* task or to none.
FiledUnder(t) == IF t <= 3 THEN 1 ELSE t - 1
TreeTasks ==
    {[id |-> t, title |-> << >>, body |-> "",
      children |-> SelectSeq([k \in 1..MaxTasks |-> k],
                             LAMBDA c : c # 1 /\ FiledUnder(c) = t),
      progress |-> NoneV] : t \in TaskIds}
AssignedClocks(starts, assigned) ==
    {[id |-> i, start |-> starts[i], end |-> Some(starts[i]), comment |-> NoneV,
      task_id |-> assigned[i]] : i \in DOMAIN starts}

load_tree(ts, cs) ==
    [doc |-> [map |-> [i \in {t.id : t \in ts} |-> i],
              clocks |-> [i \in {c.id : c \in cs} |-> i],
              current_clock |-> NoneV, root |-> 1],
     task_heap |-> [i \in {t.id : t \in ts} |-> CHOOSE t \in ts : t.id = i],
     clock_heap |-> [i \in {c.id : c \in cs} |-> CHOOSE c \in cs : c.id = i]]

InitScope ==
    /\ \E k \in 0..MaxClocks :
       \E starts \in [1..k -> Times], assigned \in [1..k -> Scopes] :
       LET cs == AssignedClocks(starts, assigned) IN
          /\ \A x, y \in 1..k : x < y => starts[x] < starts[y]
          /\ doc = load_tree(TreeTasks, cs).doc
          /\ task_heap = load_tree(TreeTasks, cs).task_heap
          /\ clock_heap = load_tree(TreeTasks, cs).clock_heap
    /\ edit = NoneV
    /\ now = 0
    /\ last = [op |-> "load"]
    /\ news = NoNews
    /\ spent = [opened |-> FALSE, edits |-> 0]

\* A query on the Doc as loaded; a query changes nothing, so a second one in
\* the same run would show nothing new.
DayClock ==
    /\ last.op = "load"
    /\ \E day \in Dates, main_task \in Scopes :
       \E order \in clock_orders(doc), pm \in parent_maps(doc, task_heap) :
        /\ last' = [op |-> "day_clock", date |-> day, main_task |-> main_task,
                    ret |-> day_clock(doc, clock_heap, order, day, main_task, pm)]
        /\ UNCHANGED << doc, task_heap, clock_heap, edit, now, news, spent >>

RangeClock ==
    /\ last.op = "load"
    /\ \E start, end \in Dates, main_task \in Scopes :
       \E order \in clock_orders(doc), pm \in parent_maps(doc, task_heap) :
        /\ last' = [op |-> "range_clock", start |-> start, end |-> end,
                    main_task |-> main_task,
                    ret |-> range_clock(doc, clock_heap, order, start, end, main_task, pm)]
        /\ UNCHANGED << doc, task_heap, clock_heap, edit, now, news, spent >>

\* The queries by day and scope on clocks assigned to the tasks of a tree.
NextScope == DayClock \/ RangeClock
SpecScope == InitScope /\ [][NextScope]_vars

\* The session and the clock allocations after a call on the session returned
\* `r`; the Doc keeps its handles.
SettleEdit(r) ==
    LET n == drop_clocks(r.heap, doc, Some(r.edit)) IN
    /\ doc' = n.doc
    /\ clock_heap' = n.heap
    /\ edit' = n.edit

\* One session is opened in a run.
CreateClockEdit ==
    /\ edit = NoneV
    /\ ~spent.opened
    /\ spent' = [opened |-> TRUE, edits |-> 0]
    /\ \E day \in Dates : \E e \in create_clock_edit(doc, clock_heap, day) :
        LET n == drop_clocks(clock_heap, doc, Some(e)) IN
        /\ doc' = n.doc
        /\ clock_heap' = n.heap
        /\ edit' = n.edit
        /\ last' = [op |-> "create_clock_edit", day |-> day]
    /\ UNCHANGED << task_heap, now, news >>

\* The setters that go through Date::and_time.
AndTimeOps == {"set_start_time", "set_end_time", "set_end_date"}

\* The calls of ClockEdit's setters, with an index in or out of range.
EditCalls ==
    {[op |-> "set_start_time", arg |-> 0], [op |-> "set_end_time", arg |-> 1],
     [op |-> "set_end_date", arg |-> 0], [op |-> "set_start", arg |-> MaxTime],
     [op |-> "set_end", arg |-> 0], [op |-> "set_duration", arg |-> 1]}

EditClock ==
    /\ IsSome(edit)
    /\ spent.edits < MaxEdits
    /\ spent' = [spent EXCEPT !.edits = @ + 1]
    /\ \E i \in 0..Len(Unwrap(edit).clocks), f \in EditCalls :
       \E single \in IF f.op \in AndTimeOps THEN BOOLEAN ELSE {TRUE} :
        LET r == modify_clock(doc, Unwrap(edit), clock_heap, i, f, single) IN
        /\ \A a \in DOMAIN r.heap :
              r.heap[a].start \in Times /\ Range(r.heap[a].end) \subseteq Times
        /\ SettleEdit(r)
        /\ last' = [op |-> f.op, i |-> i, ret |-> r.ret]
    /\ UNCHANGED << task_heap, now, news >>

\* update_clock with the handle Doc::clock returns for the entry's id (the
\* stored snapshot replaces the edited one).
UpdateClock ==
    /\ IsSome(edit)
    /\ spent.edits < MaxEdits
    /\ spent' = [spent EXCEPT !.edits = @ + 1]
    /\ \E i \in 0..Len(Unwrap(edit).clocks) :
       \E a \in IF i < Len(Unwrap(edit).clocks)
                THEN {doc.clocks[clock_heap[Unwrap(edit).clocks[i + 1]].id]}
                ELSE {doc.clocks[k] : k \in DOMAIN doc.clocks} :
        LET u == update_clock(Unwrap(edit), i, a) IN
        /\ SettleEdit([edit |-> u.edit, heap |-> clock_heap])
        /\ last' = [op |-> "update_clock", i |-> i, ret |-> u.ret]
    /\ UNCHANGED << task_heap, now, news >>

ApplyClockEdit ==
    /\ IsSome(edit)
    /\ LET d == apply_clock_edit(doc, clock_heap, Unwrap(edit))
           n == drop_clocks(clock_heap, d, NoneV)
       IN /\ doc' = n.doc
          /\ clock_heap' = n.heap
          /\ edit' = NoneV
          /\ last' = [op |-> "apply_clock_edit"]
    /\ UNCHANGED << task_heap, now, news, spent >>

\* The session is dropped without being applied.
CancelClockEdit ==
    /\ IsSome(edit)
    /\ LET n == drop_clocks(clock_heap, doc, NoneV)
       IN /\ doc' = n.doc
          /\ clock_heap' = n.heap
          /\ edit' = NoneV
          /\ last' = [op |-> "cancel"]
    /\ UNCHANGED << task_heap, now, news, spent >>

\* A session opened on a Doc read from a file.
NextOpen == CreateClockEdit
SpecOpen == InitScope /\ [][NextOpen]_vars

\* A Doc as Doc::load can return it: up to MaxClocks clocks, each started
\* later than the one before, still running or stopped at or after its start.
Ends == {NoneV} \cup {Some(t) : t \in Times}
TimedClocks(starts, ends) ==
    {[id |-> i, start |-> starts[i], end |-> ends[i], comment |-> NoneV,
      task_id |-> NoneV] : i \in DOMAIN starts}
InitSession ==
    /\ \E k \in 0..MaxClocks :
       \E starts \in [1..k -> Times], ends \in [1..k -> Ends] :
       LET cs == TimedClocks(starts, ends) IN
          /\ \A x, y \in 1..k : x < y => starts[x] < starts[y]
          /\ \A x \in 1..k : IsSome(ends[x]) => Unwrap(ends[x]) >= starts[x]
          /\ doc = load_tree(TreeTasks, cs).doc
          /\ task_heap = load_tree(TreeTasks, cs).task_heap
          /\ clock_heap = load_tree(TreeTasks, cs).clock_heap
    /\ edit = NoneV
    /\ now = 0
    /\ last = [op |-> "load"]
    /\ news = NoNews
    /\ spent = [opened |-> FALSE, edits |-> 0]

\* The first start, end or enddate line typed in a session. A panic ends the
\* process with the session as it was.
EditCommands == {"start", "end", "enddate"}
EditCommand ==
    /\ IsSome(edit)
    /\ last.op = "create_clock_edit"
    /\ \E cmd \in EditCommands :
       \E index \in {NoneV} \cup {Some(i) : i \in 0..(Len(Unwrap(edit).clocks) + 1)},
          arg \in {NoneV} \cup {Some(x) : x \in IF cmd = "enddate" THEN Dates ELSE TimesOfDay},
          single \in BOOLEAN :
       \E r \in edit_command(doc, Unwrap(edit), clock_heap, cmd, index, arg, single) :
        /\ SettleEdit(r)
        /\ last' = IF r.panic
                   THEN [op |-> cmd, index |-> index, arg |-> arg, single |-> single,
                         panic |-> TRUE]
                   ELSE [op |-> cmd, index |-> index, arg |-> arg, single |-> single,
                         panic |-> FALSE, ret |-> r.ret, exit |-> run_command(r.ret)]
    /\ UNCHANGED << task_heap, now, news, spent >>

\* A session on a Doc read from a file and one command typed in it.
NextSession == CreateClockEdit \/ EditCommand
SpecSession == InitSession /\ [][NextSession]_vars

\* The Docs that are saved: the tree with a title and a progress set or not,
\* up to MaxClocks clocks, commented and assigned or not, and a register that
\* is empty or holds any id.
Notes == {[comment |-> NoneV, task_id |-> NoneV],
          [comment |-> Some(""), task_id |-> Some(1)],
          [comment |-> Some("c"), task_id |-> Some(2)]}
NotedClocks(starts, ends, note) ==
    {[id |-> i, start |-> starts[i], end |-> ends[i], comment |-> note.comment,
      task_id |-> note.task_id] : i \in DOMAIN starts}
TitledTasks(title, progress) ==
    {IF t.id = 1 THEN [t EXCEPT !.title = title]
     ELSE IF t.id = 2 THEN [t EXCEPT !.progress = progress, !.body = "b"]
     ELSE t : t \in TreeTasks}
InitFile ==
    /\ \E k \in 0..MaxClocks :
       \E starts \in [1..k -> Times], ends \in [1..k -> Ends], note \in Notes,
          title \in Titles, progress \in {NoneV} \cup {Some(p) : p \in Progresses},
          cur \in {NoneV} \cup {Some(i) : i \in 1..(k + 1)} :
       LET cs == NotedClocks(starts, ends, note)
           ts == TitledTasks(title, progress) IN
          /\ \A x, y \in 1..k : x < y => starts[x] < starts[y]
          /\ \A x \in 1..k : IsSome(ends[x]) => Unwrap(ends[x]) >= starts[x]
          /\ doc = [load_tree(ts, cs).doc EXCEPT !.current_clock = cur]
          /\ task_heap = load_tree(ts, cs).task_heap
          /\ clock_heap = load_tree(ts, cs).clock_heap
    /\ edit = NoneV
    /\ now = 0
    /\ last = [op |-> "load"]
    /\ news = NoNews
    /\ spent = [opened |-> FALSE, edits |-> 0]

\* doc.save(path), and Doc::load(path) of the file just written in place of
\* the Doc.
Save ==
    /\ last.op = "load"
    /\ \E created \in BOOLEAN :
       LET r == save(doc, task_heap, clock_heap, created) IN
        last' = [op |-> "save", ret |-> r.ret, file |-> r.file]
    /\ UNCHANGED << doc, task_heap, clock_heap, edit, now, news, spent >>

Reload ==
    /\ last.op = "save"
    /\ IsSome(last.file)
    /\ LET r == from_reader(Unwrap(last.file)) IN
        /\ doc' = r.doc
        /\ task_heap' = r.task_heap
        /\ clock_heap' = r.clock_heap
    /\ last' = [op |-> "reload"]
    /\ UNCHANGED << edit, now, news, spent >>

NextFile == Save \/ Reload
SpecFile == InitFile /\ [][NextFile]_vars

\* upsert with a handle the caller made with Rc::new: a task as Task::new
\* makes it, under an id the Doc has no task for or under the id of a stored
\* task, which it replaces.
Upsert ==
    /\ Running
    /\ \E id \in TaskIds :
        LET n == rc_new(task_heap, task_new(id))
            r == [doc |-> upsert(doc, n.heap, n.ref), heap |-> n.heap]
        IN /\ SettleTasks(r)
           /\ last' = [op |-> "upsert", id |-> id]
    /\ UNCHANGED << clock_heap, edit, now, news, spent >>

\* The tasks of TreeTasks with an id up to `n`, filed as there.
PartTree(n) ==
    {[t EXCEPT !.children = SelectSeq(t.children, LAMBDA c : c <= n)] :
        t \in {t \in TreeTasks : t.id <= n}}

\* A Doc as Doc::new() makes it, or one as Doc::load can return it after
\* earlier runs: a tree of up to MaxTasks tasks, up to MaxLoaded clocks, and a
\* register that is empty or holds the id of one of them.
InitDoc ==
    \/ Init
    \/ /\ \E n \in 1..MaxTasks, cs \in SUBSET LoadedClocks,
             cur \in {NoneV} \cup {Some(i) : i \in 1..MaxLoaded} :
          /\ \A c1, c2 \in cs : c1.id = c2.id => c1 = c2
          /\ \A c \in cs : \A i \in 1..c.id : \E c2 \in cs : c2.id = i
          /\ IsSome(cur) => \E c \in cs : c.id = Unwrap(cur)
          /\ doc = [load_tree(PartTree(n), cs).doc EXCEPT !.current_clock = cur]
          /\ task_heap = load_tree(PartTree(n), cs).task_heap
          /\ clock_heap = load_tree(PartTree(n), cs).clock_heap
       /\ edit = NoneV
       /\ now = 0
       /\ last = [op |-> "load"]
       /\ news = NoNews
       /\ spent = [opened |-> FALSE, edits |-> 0]

\* One operation on the Doc as made or loaded, or one session on it with its
\* edits: what an operation does to the stores shows in the step it takes.
Untouched == last.op \in {"new", "load"}
DocUpsert == Untouched /\ Upsert
DocAddSubtask == Untouched /\ AddSubtask
DocModifyTask == Untouched /\ ModifyTask
DocRemoveChild == Untouched /\ RemoveChild
DocRm == Untouched /\ Rm
DocMv == Untouched /\ Mv
DocClockNew == Untouched /\ ClockNewCap(MaxLoaded + 1, 0)
DocClockOut == Untouched /\ ClockOut
DocClockAssign == Untouched /\ ClockAssign
DocClockComment == Untouched /\ ClockComment
DocCreateClockEdit == Untouched /\ CreateClockEdit

NextDoc ==
    \/ DocUpsert \/ DocAddSubtask \/ DocModifyTask \/ DocRemoveChild \/ DocRm \/ DocMv
    \/ DocClockNew \/ DocClockOut \/ DocClockAssign \/ DocClockComment
    \/ DocCreateClockEdit \/ EditClock \/ ApplyClockEdit \/ CancelClockEdit
SpecDoc == InitDoc /\ [][NextDoc]_vars

\* A caller that keeps the handle Doc::get returned. `last.held` is that
\* handle and `last.was` the task it pointed to when get returned. The
\* allocation stays live while the caller holds it: at the address of its key
\* while the map shares it, behind the stored ones otherwise.
HeldAddr == MaxTasks + 1
settle_held(r, held) ==
    LET n == drop_tasks(r.heap, r.doc)
        keys == {i \in DOMAIN r.doc.map : r.doc.map[i] = held}
    IN IF keys # {}
       THEN [doc |-> n.doc, heap |-> n.heap,
             held |-> CHOOSE i \in keys : \A j \in keys : i <= j]
       ELSE [doc |-> n.doc, heap |-> n.heap @@ (HeldAddr :> r.heap[held]), held |-> HeldAddr]

Get ==
    /\ Untouched
    /\ \E id \in TaskIds :
        LET r == get(doc, id) IN
        last' = IF r.ok THEN [op |-> "get", id |-> id, ret |-> r, held |-> r.val,
                              was |-> task_heap[r.val]]
                ELSE [op |-> "get_none", id |-> id, ret |-> r]
    /\ UNCHANGED << doc, task_heap, clock_heap, edit, now, news, spent >>

\* The closures and setters used while a handle is held: each succeeds.
HeldCalls ==
    {[op |-> "add_child", arg |-> c, fails |-> FALSE] : c \in TaskIds}
    \cup {[op |-> "remove_child", arg |-> c, fails |-> FALSE] : c \in TaskIds}
    \cup {[op |-> "set_title", arg |-> << "a" >>, fails |-> FALSE]}

\* modify_task and upsert on the store after the get.
HeldModifyTask ==
    /\ last.op = "get"
    /\ \E id \in TaskIds, f \in HeldCalls :
        LET r == modify_task(doc, task_heap, id, f)
            n == settle_held(r, last.held)
        IN /\ doc' = n.doc
           /\ task_heap' = n.heap
           /\ last' = [op |-> "modify_task", id |-> id, func |-> f, ret |-> r.ret,
                       held |-> n.held, was |-> last.was]
    /\ UNCHANGED << clock_heap, edit, now, news, spent >>

HeldUpsert ==
    /\ last.op = "get"
    /\ \E id \in TaskIds :
        LET m == rc_new(task_heap, [task_new(id) EXCEPT !.body = "b"])
            n == settle_held([doc |-> upsert(doc, m.heap, m.ref), heap |-> m.heap], last.held)
        IN /\ doc' = n.doc
           /\ task_heap' = n.heap
           /\ last' = [op |-> "upsert", id |-> id, held |-> n.held, was |-> last.was]
    /\ UNCHANGED << clock_heap, edit, now, news, spent >>

\* A TaskMod setter on the held handle, right after the get or after the
\* store was written; the strong count is the map's handles plus the held one.
HeldSet ==
    /\ last.op \in {"get", "modify_task", "upsert"}
    /\ "held" \in DOMAIN last
    /\ \E f \in HeldCalls :
        LET c == call(f, task_heap, last.held, task_strong_count(doc, last.held) + 1)
            n == settle_held([doc |-> doc, heap |-> c.heap], c.ref)
        IN /\ doc' = n.doc
           /\ task_heap' = n.heap
           /\ last' = [op |-> "set", func |-> f, held |-> n.held, was |-> last.was,
                       before |-> task_heap[last.held]]
    /\ UNCHANGED << clock_heap, edit, now, news, spent >>

\* The caller stores the snapshot it holds.
UpsertHeld ==
    /\ last.op = "set"
    /\ LET n == settle_held([doc |-> upsert(doc, task_heap, last.held), heap |-> task_heap],
                            last.held)
       IN /\ doc' = n.doc
          /\ task_heap' = n.heap
          /\ last' = [op |-> "upsert_held", held |-> n.held, was |-> last.was]
    /\ UNCHANGED << clock_heap, edit, now, news, spent >>

\* A handle held across writes to the store and setters called on it.
NextSnapshot == Get \/ HeldModifyTask \/ HeldUpsert \/ HeldSet \/ UpsertHeld
SpecSnapshot == InitDoc /\ [][NextSnapshot]_vars

\* One lookup or one add_subtask on a Doc, with ids it has and ids it lacks.
NextNotFound == Get \/ DocAddSubtask
SpecNotFound == InitDoc /\ [][NextNotFound]_vars

\* The three setters of the session's terminal, called one after another on
\* a session, with an index in or out of range.
TimeCalls ==
    {[op |-> "set_start_time", arg |-> t] : t \in TimesOfDay}
    \cup {[op |-> "set_end_time", arg |-> t] : t \in TimesOfDay}
    \cup {[op |-> "set_end_date", arg |-> d] : d \in Dates}
EditTime ==
    /\ IsSome(edit)
    /\ spent.edits < MaxEdits
    /\ spent' = [spent EXCEPT !.edits = @ + 1]
    /\ \E i \in 0..Len(Unwrap(edit).clocks), f \in TimeCalls, single \in BOOLEAN :
        LET r == modify_clock(doc, Unwrap(edit), clock_heap, i, f, single) IN
        /\ SettleEdit(r)
        /\ last' = [op |-> f.op, i |-> i, ret |-> r.ret]
    /\ UNCHANGED << task_heap, now, news >>

\* apply_clock_edit with a clone of the session: the caller keeps the session.
ApplyClone ==
    /\ IsSome(edit)
    /\ LET d == apply_clock_edit(doc, clock_heap, Unwrap(edit))
           n == drop_clocks(clock_heap, d, edit)
       IN /\ doc' = n.doc
          /\ clock_heap' = n.heap
          /\ edit' = n.edit
          /\ last' = [op |-> "apply_clone", again |-> last.op = "apply_clone"]
    /\ UNCHANGED << task_heap, now, news, spent >>

\* A session on a Doc read from a file, edited and applied with no other
\* operation on the Doc in between.
NextEdits == CreateClockEdit \/ EditTime \/ ApplyClockEdit
SpecEdits == InitSession /\ [][NextEdits]_vars

\* The same, the caller applying clones of the session any number of times.
NextApply == CreateClockEdit \/ EditTime \/ ApplyClone
SpecApply == InitSession /\ [][NextApply]_vars

\* Clocking in and out with clock edit sessions, from Doc::new().
Next ==
    \/ ClockNew \/ ClockOut
    \/ CreateClockEdit \/ EditClock \/ UpdateClock \/ ApplyClockEdit \/ CancelClockEdit
Spec == Init /\ [][Next]_vars

EditOps ==
    {"set_start_time", "set_end_time", "set_end_date", "set_start", "set_end",
     "set_duration", "update_clock"}

\* The clock state machine alone, from Doc::new().
NextClock == Tick \/ ClockNew \/ ClockOut \/ ClockAssign \/ ClockComment
SpecClock == Init /\ [][NextClock]_vars

\* The clock state machine on a Doc read from a file.
NextLoad == ClockNewLoaded \/ ClockOut \/ ClockAssign \/ ClockComment
SpecLoad == InitLoad /\ [][NextLoad]_vars

ClockOps == {"clock_new", "clock_out", "clock_assign", "clock_comment"}

\* ------------------------------------------------------------------- claims
\* C1: from Doc::new() under clock_new, clock_out, clock_assign, clock_comment,
\* at most one stored clock has end = None, and a clock has end = None exactly
\* when current_clock references it.
C1_SingleActiveClock ==
    /\ Cardinality(OpenClocks) <= 1
    /\ \A i \in DOMAIN doc.clocks :
          (ClockOf(i).end = NoneV) <=> (doc.current_clock = Some(i))
C1_Witness ==
    /\ IsSome(doc.current_clock)
    /\ Cardinality(DOMAIN doc.clocks) >= 2
    /\ Unwrap(doc.current_clock) \in OpenClocks
    /\ \E i \in DOMAIN doc.clocks : ClockOf(i).end # NoneV

\* C2 as stated: after two clock_new() calls in a row on any Doc, the clock
\* the first returned has its end set, current_clock references the clock the
\* second returned, and exactly one stored clock has end = None.
C2_Original ==
    Len(news.ids) = 2 =>
        /\ IsSome(ClockOf(news.ids[1]).end)
        /\ doc.current_clock = Some(news.ids[2])
        /\ Cardinality(OpenClocks) = 1
\* C2 amended: the same, for a Doc in which, before the first call, the register
\* referenced a stored clock or none and no other clock was open.
C2_TwoClockNew ==
    (Len(news.ids) = 2 /\ news.clean[1]) =>
        /\ IsSome(ClockOf(news.ids[1]).end)
        /\ doc.current_clock = Some(news.ids[2])
        /\ OpenClocks = {news.ids[2]}
C2_Witness ==
    /\ Len(news.ids) = 2
    /\ news.clean[1]
    /\ Cardinality(DOMAIN doc.clocks) = 3

\* C5: every edit of the session (set_start_time, set_end_time, set_end_date,
\* set_start, set_end, set_duration, update_clock) leaves the Doc's clock
\* store and current_clock, and the rest of the Doc, unchanged; so does dropping
\* the session.
C5_EditLeavesDoc ==
    [][last'.op \in EditOps \cup {"cancel"} =>
        /\ StoredClocks' = StoredClocks
        /\ doc'.current_clock = doc.current_clock
        /\ StoredTasks' = StoredTasks
        /\ doc'.root = doc.root]_vars
C5_Witness ==
    /\ last.op = "set_end"
    /\ last.ret.ok
    /\ IsSome(edit)
    /\ \E p \in DOMAIN Unwrap(edit).clocks :
          LET c == clock_heap[Unwrap(edit).clocks[p]] IN
          /\ c.id \in DOMAIN doc.clocks
          /\ ClockOf(c.id) # c
          /\ doc.current_clock = Some(c.id)

\* C6: apply_clock_edit stores, for every clock of the working copy, the
\* working-copy value under its id (all fields), and leaves every other
\* clock, the task map, root and current_clock unchanged.
SessionClocks == [p \in DOMAIN Unwrap(edit).clocks |-> clock_heap[Unwrap(edit).clocks[p]]]
C6_ApplyOverwrites ==
    [][last'.op = "apply_clock_edit" =>
        /\ \A p \in DOMAIN SessionClocks :
              /\ SessionClocks[p].id \in DOMAIN doc'.clocks
              /\ clock_heap'[doc'.clocks[SessionClocks[p].id]] = SessionClocks[p]
        /\ \A i \in DOMAIN doc.clocks \ {SessionClocks[p].id : p \in DOMAIN SessionClocks} :
              /\ i \in DOMAIN doc'.clocks
              /\ clock_heap'[doc'.clocks[i]] = ClockOf(i)
        /\ DOMAIN doc'.clocks
             = DOMAIN doc.clocks \cup {SessionClocks[p].id : p \in DOMAIN SessionClocks}
        /\ doc'.current_clock = doc.current_clock
        /\ StoredTasks' = StoredTasks
        /\ doc'.root = doc.root]_vars
C6_Witness ==
    /\ last.op = "apply_clock_edit"
    /\ Cardinality(DOMAIN doc.clocks) = 2
    /\ \E i \in DOMAIN doc.clocks :
          /\ ClockOf(i).end = NoneV
          /\ doc.current_clock = NoneV
    /\ \E i \in DOMAIN doc.clocks : IsSome(ClockOf(i).end) /\ Unwrap(ClockOf(i).end) < ClockOf(i).start

\* C7: with the register referencing an id absent from the store, each of the
\* four clock operations returns ClockNotFound and leaves the Doc unchanged; in
\* every other state none of them returns an error.
Dangling(d) == IsSome(d.current_clock) /\ Unwrap(d.current_clock) \notin DOMAIN d.clocks
C7_ClockNotFound ==
    [][last'.op \in ClockOps =>
        IF Dangling(doc)
        THEN /\ ~last'.ret.ok
             /\ last'.ret.err = "ClockNotFound"
             /\ doc' = doc
             /\ clock_heap' = clock_heap
             /\ task_heap' = task_heap
        ELSE last'.ret.ok]_vars
C7_Witness ==
    /\ Dangling(doc)
    /\ last.op = "clock_new"
    /\ ~last.ret.ok

\* C8: clock_out in the Active state sets end (to the time read) on the clock
\* the register references, clears the register and returns true; no other
\* field of that clock and no other clock changes.
C8_ClockOutActive ==
    [][(last'.op = "clock_out" /\ IsSome(doc.current_clock)) =>
        LET i == Unwrap(doc.current_clock) IN
        /\ last'.ret.ok
        /\ last'.ret.val = TRUE
        /\ doc'.current_clock = NoneV
        /\ DOMAIN doc'.clocks = DOMAIN doc.clocks
        /\ clock_heap'[doc'.clocks[i]] = [ClockOf(i) EXCEPT !.end = Some(now)]
        /\ \A j \in DOMAIN doc.clocks \ {i} : clock_heap'[doc'.clocks[j]] = ClockOf(j)
        /\ doc'.map = doc.map /\ doc'.root = doc.root /\ task_heap' = task_heap]_vars
C8_Witness ==
    /\ last.op = "clock_out"
    /\ last.ret.val = TRUE
    /\ Cardinality(DOMAIN doc.clocks) >= 2
    /\ \E i \in DOMAIN doc.clocks : IsSome(ClockOf(i).comment) /\ IsSome(ClockOf(i).task_id)

\* C9: in the Idle state clock_out returns false, clock_assign and
\* clock_comment return success, and each leaves the whole Doc unchanged.
C9_IdleNoOp ==
    [][(last'.op \in {"clock_out", "clock_assign", "clock_comment"}
        /\ doc.current_clock = NoneV) =>
        /\ last'.ret.ok
        /\ last'.op = "clock_out" => last'.ret.val = FALSE
        /\ doc' = doc
        /\ clock_heap' = clock_heap
        /\ task_heap' = task_heap]_vars
C9_Witness ==
    /\ doc.current_clock = NoneV
    /\ last.op = "clock_assign"
    /\ last.ret.ok
    /\ DOMAIN doc.clocks # {}

\* C10: clock_new ends in the Active state: it adds exactly one clock, under an
\* id the store did not hold, with end, task_id and comment None, registers it
\* and returns it; the clock active before is closed first and no other clock
\* changes.
C10_ClockNew ==
    [][last'.op = "clock_new" =>
        /\ last'.ret.ok
        /\ LET c == last'.ret.val IN
            /\ c.id \notin DOMAIN doc.clocks
            /\ DOMAIN doc'.clocks = DOMAIN doc.clocks \cup {c.id}
            /\ c.end = NoneV /\ c.task_id = NoneV /\ c.comment = NoneV
            /\ doc'.current_clock = Some(c.id)
            /\ clock_heap'[doc'.clocks[c.id]] = c
            /\ \A j \in DOMAIN doc.clocks :
                  IF doc.current_clock = Some(j)
                  THEN /\ IsSome(clock_heap'[doc'.clocks[j]].end)
                       /\ clock_heap'[doc'.clocks[j]]
                            = [ClockOf(j) EXCEPT !.end = clock_heap'[doc'.clocks[j]].end]
                  ELSE clock_heap'[doc'.clocks[j]] = ClockOf(j)]_vars
C10_Witness ==
    /\ last.op = "clock_new"
    /\ last.ret.ok
    /\ doc.current_clock = Some(last.ret.val.id)
    /\ \E j \in DOMAIN doc.clocks : j # last.ret.val.id /\ IsSome(ClockOf(j).end)

\* C11: in the Active state clock_assign(t) changes only the task_id of the
\* clock the register references (to t, over any earlier assignment) and
\* clock_comment(c) only its comment; current_clock, the clock's other fields
\* and every other clock stay as they were.
C11_AssignCommentFrame ==
    [][(last'.op \in {"clock_assign", "clock_comment"} /\ IsSome(doc.current_clock)) =>
        LET i == Unwrap(doc.current_clock) IN
        /\ last'.ret.ok
        /\ doc'.current_clock = doc.current_clock
        /\ DOMAIN doc'.clocks = DOMAIN doc.clocks
        /\ clock_heap'[doc'.clocks[i]] =
              IF last'.op = "clock_assign"
              THEN [ClockOf(i) EXCEPT !.task_id = Some(last'.task_ref)]
              ELSE [ClockOf(i) EXCEPT !.comment = Some(last'.comment)]
        /\ \A j \in DOMAIN doc.clocks \ {i} : clock_heap'[doc'.clocks[j]] = ClockOf(j)
        /\ doc'.map = doc.map /\ doc'.root = doc.root /\ task_heap' = task_heap]_vars
C11_Witness ==
    /\ last.op = "clock_assign"
    /\ IsSome(last.was)
    /\ last.was # Some(last.task_ref)
    /\ IsSome(doc.current_clock)
    /\ ClockOf(Unwrap(doc.current_clock)).task_id = Some(last.task_ref)
    /\ IsSome(ClockOf(Unwrap(doc.current_clock)).comment)
    /\ \E j \in DOMAIN doc.clocks : IsSome(ClockOf(j).end) /\ IsSome(ClockOf(j).task_id)

\* C3 as stated: after add_subtask(task, parent) succeeds, for any task and
\* parent, find_parent(task.id) returns parent.
C3_Original ==
    (last.op = "add_subtask" /\ last.ret.ok) =>
        find_parent(doc, task_heap, last.task_id) = {Some(last.parent)}
\* C3 amended: the same, when the task is not the parent itself, does not list
\* itself as a child, and no stored task other than the parent lists its id.
C3_AddSubtaskParent ==
    (last.op = "add_subtask" /\ last.ret.ok /\ last.only) =>
        find_parent(doc, task_heap, last.task_id) = {Some(last.parent)}
C3_Witness ==
    /\ last.op = "add_subtask"
    /\ last.ret.ok
    /\ last.only
    /\ last.parent # doc.root
    /\ Len(TaskOf(last.parent).children) >= 2

\* C4: modify_task(id, f) never partially commits: with id absent or f failing
\* the task map is as before the call; with f succeeding the task's snapshot is
\* the full post-f snapshot and no other entry changes.
AfterCall(f, t) ==
    CASE f.op = "add_child" -> [t EXCEPT !.children = Append(t.children, f.arg)]
      [] f.op = "remove_child" ->
            [t EXCEPT !.children = SelectSeq(t.children, LAMBDA c : c # f.arg)]
      [] f.op = "set_title" -> [t EXCEPT !.title = f.arg]
Count(s, x) == Cardinality({k \in DOMAIN s : s[k] = x})
RECURSIVE Without(_, _)
Without(s, x) ==
    IF s = << >> THEN << >>
    ELSE IF Head(s) = x THEN Without(Tail(s), x)
         ELSE << Head(s) >> \o Without(Tail(s), x)

\* C12 as stated: insert_child with an index beyond the length of the list
\* returns an IndexOutOfRange error, without ending the process, and leaves the
\* list as it was; with an index equal to the length it appends. Taken on the
\* reorder command, where the list is the one left by remove_child.
C12_InsertChildError ==
    [][(last'.op = "reorder" /\ last'.idx_from \in 1..Len(TaskOf(last'.wt).children)
        /\ last'.idx_to >= 1) =>
        LET cs == TaskOf(last'.wt).children
            c == cs[last'.idx_from]
            rest == Without(cs, c)
            k == last'.idx_to - 1
        IN /\ k > Len(rest) => (~last'.panic /\ StoredTasks' = StoredTasks)
           /\ k = Len(rest) =>
                 (~last'.panic /\ task_heap'[doc'.map[last'.wt]].children = Append(rest, c))]_vars

\* C13 as stated: remove_child(c) then insert_child(c, k), 0 <= k <= length
\* after the removal, gives a permutation of the original list with c at index
\* k, c exactly once, and the other children in their original order.
C13_Original ==
    [][(last'.op = "reorder" /\ last'.idx_from \in 1..Len(TaskOf(last'.wt).children)
        /\ last'.idx_to >= 1
        /\ last'.idx_to - 1 <= Len(Without(TaskOf(last'.wt).children,
                                             TaskOf(last'.wt).children[last'.idx_from]))) =>
        LET cs == TaskOf(last'.wt).children
            c == cs[last'.idx_from]
            new == task_heap'[doc'.map[last'.wt]].children
        IN /\ \A x \in TaskIds : Count(new, x) = Count(cs, x)
           /\ new[last'.idx_to] = c
           /\ Count(new, c) = 1
           /\ Without(new, c) = Without(cs, c)]_vars
\* C13 amended: the same, for a child c that occurs once in the list.
C13_Reorder ==
    [][(last'.op = "reorder" /\ last'.idx_from \in 1..Len(TaskOf(last'.wt).children)
        /\ last'.idx_to >= 1
        /\ last'.idx_to - 1 <= Len(Without(TaskOf(last'.wt).children,
                                             TaskOf(last'.wt).children[last'.idx_from]))
        /\ Count(TaskOf(last'.wt).children, TaskOf(last'.wt).children[last'.idx_from]) = 1) =>
        LET cs == TaskOf(last'.wt).children
            c == cs[last'.idx_from]
            new == task_heap'[doc'.map[last'.wt]].children
        IN /\ ~last'.panic
           /\ \A x \in TaskIds : Count(new, x) = Count(cs, x)
           /\ new[last'.idx_to] = c
           /\ Count(new, c) = 1
           /\ Without(new, c) = Without(cs, c)]_vars
C13_Witness ==
    /\ last.op = "reorder"
    /\ ~last.panic
    /\ last.idx_from = 3
    /\ last.idx_to = 1
    /\ Len(TaskOf(last.wt).children) = 3
    /\ \A x \in Range(TaskOf(last.wt).children) : Count(TaskOf(last.wt).children, x) = 1

\* C14: remove_child(child_id) leaves the old list without every occurrence of
\* child_id, the rest in their order; the list is unchanged when child_id is
\* not in it; and the task map keeps every task, the removed one too.
C14_RemoveChild ==
    [][/\ (last'.op = "modify_task" /\ last'.func.op = "remove_child"
            /\ last'.id \in DOMAIN doc.map) =>
            /\ last'.ret.ok
            /\ StoredTasks' = [StoredTasks EXCEPT
                    ![last'.id].children = Without(@, last'.func.arg)]
            /\ last'.func.arg \notin Range(TaskOf(last'.id).children)
                    => StoredTasks' = StoredTasks
       /\ (last'.op = "rm" /\ ~last'.panic) =>
            StoredTasks' = [StoredTasks EXCEPT
                    ![last'.wt].children = Without(@, TaskOf(last'.wt).children[last'.i])]]_vars
C14_Witness ==
    /\ last.op = "modify_task"
    /\ last.func.op = "remove_child"
    /\ last.ret.ok
    /\ last.func.arg \in DOMAIN doc.map
    /\ TaskOf(last.id).children # << >>
    /\ last.func.arg \notin Range(TaskOf(last.id).children)
    /\ Cardinality(DOMAIN doc.map) = MaxTasks

\* The stored tasks that list x as a child, and the tasks above x: those that
\* reach x through one or more child links.
Listers(x) == {k \in DOMAIN doc.map : x \in Range(TaskOf(k).children)}
RECURSIVE Grow(_)
Grow(S) ==
    LET n == S \cup UNION {Listers(x) : x \in S}
    IN IF n = S THEN S ELSE Grow(n)
AncestorsOf(c) == Grow(Listers(c))
\* The tasks above x on the way up along which every task has one lister only.
RECURSIVE SoleUp(_, _)
SoleUp(x, seen) ==
    IF Cardinality(Listers(x)) = 1 /\ Listers(x) \cap seen = {}
    THEN Listers(x) \cup SoleUp(CHOOSE l \in Listers(x) : TRUE, seen \cup Listers(x))
    ELSE {}
SoleAncestorsOf(c) == SoleUp(c, {})

\* C15 as stated: is_in_hierarchy_of(x, x) is true for every id; it is true
\* of (c, p) for every direct or transitive child c of p; it is false when p is
\* neither c nor above c.
C15_Original ==
    \A pm \in parent_maps(doc, task_heap) :
        /\ \A x \in TaskIds : is_in_hierarchy_of(pm, x, x)
        /\ \A c \in TaskIds : \A p \in AncestorsOf(c) : is_in_hierarchy_of(pm, c, p)
        /\ \A c, p \in TaskIds :
              (p # c /\ p \notin AncestorsOf(c)) => ~is_in_hierarchy_of(pm, c, p)
\* C15 amended: the second part for p reached from c by going up through tasks
\* that each have exactly one task listing them.
C15_Hierarchy ==
    \A pm \in parent_maps(doc, task_heap) :
        /\ \A x \in TaskIds : is_in_hierarchy_of(pm, x, x)
        /\ \A c \in TaskIds : \A p \in SoleAncestorsOf(c) : is_in_hierarchy_of(pm, c, p)
        /\ \A c, p \in TaskIds :
              (p # c /\ p \notin AncestorsOf(c)) => ~is_in_hierarchy_of(pm, c, p)
C15_Witness ==
    \E c \in DOMAIN doc.map : \E p \in SoleAncestorsOf(c) :
        /\ p \notin Listers(c)
        /\ c \notin AncestorsOf(c)
        /\ \A pm \in parent_maps(doc, task_heap) :
              is_in_hierarchy_of(pm, c, p) /\ ~is_in_hierarchy_of(pm, p, c)

\* C16: is_in_hierarchy_of ends on every task graph, cyclic ones too: it
\* follows at most 200 parent links, and answers false when it has followed
\* 200 without coming to the ancestor.
C16_HopBound ==
    \A pm \in parent_maps(doc, task_heap) : \A c, p \in TaskIds :
        LET r == hierarchy_loop(pm, c, p) IN
        /\ r.done
        /\ r.links <= HopLimit
        /\ r.links = HopLimit => ~r.val
C16_Witness ==
    \E pm \in parent_maps(doc, task_heap) : \E c, p \in DOMAIN doc.map :
        /\ c \in AncestorsOf(c)
        /\ hierarchy_loop(pm, c, p).done
        /\ hierarchy_loop(pm, c, p).links = HopLimit
        /\ ~hierarchy_loop(pm, c, p).val

\* C17 as stated: for every task id of the Doc path(id) returns a sequence
\* that starts with id, continues with the find_parent of each element, and
\* ends with the root.
C17_PathToRoot ==
    \A pm \in parent_maps(doc, task_heap) : \A id \in DOMAIN doc.map :
        LET r == path(pm, id) IN
        /\ r.returns
        /\ r.val[1] = id
        /\ \A k \in 1..(Len(r.val) - 1) : Some(r.val[k + 1]) = pm[r.val[k]]
        /\ r.val[Len(r.val)] = doc.root

\* C18 as stated: after any sequence of add_subtask and mv no task is its own
\* direct or transitive child.
C18_Acyclic == \A x \in TaskIds : x \notin AncestorsOf(x)

\* ---------------------------------------------------- claims on the lookups
\* C19 as stated: a path that is the 1-based ordinal i of a child, looked up
\* on a task with n children, gives the i-th child when 1 <= i <= n and none for
\* every other ordinal, 0 and n + 1 too, and never ends the process.
C19_Ordinal ==
    (/\ last.op = "uuid_for_path"
     /\ split(last.path, "/") = << last.path >>
     /\ parse_usize(last.path).ok) =>
        LET i == parse_usize(last.path).val
            children == TaskOf(last.wt).children
        IN /\ ~last.panic
           /\ (1 <= i /\ i <= Len(children)) => last.ret = Some(children[i])
           /\ ~(1 <= i /\ i <= Len(children)) => last.ret = NoneV

\* A title or prefix lower-cased and with underscores for its spaces.
Normal(s) ==
    [k \in DOMAIN s |-> CASE s[k] = "A" -> "a" [] s[k] = "B" -> "b"
                          [] s[k] = " " -> "_" [] OTHER -> s[k]]
\* The positions in the children list of `task_id` of the stored tasks whose
\* title matches the prefix.
Matching(task_id, prefix) ==
    IF task_id \notin DOMAIN doc.map THEN {}
    ELSE {k \in DOMAIN TaskOf(task_id).children :
            /\ TaskOf(task_id).children[k] \in DOMAIN doc.map
            /\ LET t == Normal(TaskOf(TaskOf(task_id).children[k]).title)
                   q == Normal(prefix)
               IN Len(q) <= Len(t) /\ \A j \in DOMAIN q : t[j] = q[j]}

\* C20 as stated: task_child_prefix returns the first direct child, in children
\* order, whose normalized title starts with the normalized prefix, and none
\* exactly when no direct child matches.
C20_ChildPrefix ==
    last.op = "task_child_prefix" =>
        LET m == Matching(last.task_id, last.prefix) IN
        IF m = {} THEN last.ret = NoneV
        ELSE last.ret = Some(TaskOf(last.task_id).children[CHOOSE k \in m : \A j \in m : k <= j])

\* ---------------------------------------------------- claims on the progress
\* The positions in the children list of `id` of the stored tasks that have a
\* progress, and of those whose progress is Done.
WithProgress(id) ==
    {k \in DOMAIN TaskOf(id).children :
        /\ TaskOf(id).children[k] \in DOMAIN doc.map
        /\ TaskOf(TaskOf(id).children[k]).progress # NoneV}
WithDone(id) ==
    {k \in WithProgress(id) : TaskOf(TaskOf(id).children[k]).progress = Some("Done")}

InScope(main_task) ==
    LET pms == parent_maps(doc, task_heap) IN
    {i \in DOMAIN doc.clocks :
        \/ main_task = NoneV
        \/ ClockOf(i).task_id = NoneV
        \/ \A pm \in pms :
              is_in_hierarchy_of(pm, Unwrap(ClockOf(i).task_id), Unwrap(main_task))}
OnDay(day) == {i \in DOMAIN doc.clocks : date(ClockOf(i).start) = day}

\* C22: day_clock(date, scope) returns exactly the stored clocks that start on
\* the date and pass the scope filter, each once; with a leaf as scope a clock
\* assigned to a sibling of the leaf is left out; with no scope every clock of
\* the day is returned.
C22_DayClock ==
    last.op = "day_clock" =>
        /\ Range(last.ret) = {doc.clocks[i] : i \in OnDay(last.date) \cap InScope(last.main_task)}
        /\ Len(last.ret) = Cardinality(Range(last.ret))
        /\ last.main_task = NoneV => Range(last.ret) = {doc.clocks[i] : i \in OnDay(last.date)}
        /\ \A l \in DOMAIN doc.map \cap Range(last.main_task), i \in DOMAIN doc.clocks :
              (/\ TaskOf(l).children = << >>
               /\ ClockOf(i).task_id # NoneV
               /\ ClockOf(i).task_id # Some(l)
               /\ Listers(Unwrap(ClockOf(i).task_id)) \cap Listers(l) # {})
              => doc.clocks[i] \notin Range(last.ret)
\* Two clocks of the day, one on a leaf and one on its sibling: the query with
\* the leaf as scope returns the first alone.
C22_Witness ==
    /\ last.op = "day_clock"
    /\ \E l, s \in DOMAIN doc.map : \E i, j \in OnDay(last.date) :
        /\ l # s
        /\ last.main_task = Some(l)
        /\ TaskOf(l).children = << >>
        /\ Listers(l) \cap Listers(s) # {}
        /\ ClockOf(i).task_id = Some(l)
        /\ ClockOf(j).task_id = Some(s)
        /\ last.ret = << doc.clocks[i] >>

\* C23: range_clock(start, end, scope) returns exactly the stored clocks whose
\* start date is from start to end, both included, and that pass the scope
\* filter; with start = end it returns the clocks of day_clock; with
\* start > end it returns nothing.
C23_RangeClock ==
    last.op = "range_clock" =>
        /\ Range(last.ret) =
              {doc.clocks[i] : i \in {i \in InScope(last.main_task) :
                  last.start <= date(ClockOf(i).start) /\ date(ClockOf(i).start) <= last.end}}
        /\ Len(last.ret) = Cardinality(Range(last.ret))
        /\ last.start = last.end =>
              \A order \in clock_orders(doc), pm \in parent_maps(doc, task_heap) :
                  Range(last.ret) =
                      Range(day_clock(doc, clock_heap, order, last.start, last.main_task, pm))
        /\ last.start > last.end => last.ret = << >>
\* A range of two days returns a clock of its first and a clock of its last
\* day; a range of one day returns a clock.
C23_Witness ==
    /\ last.op = "range_clock"
    /\ last.start < last.end
    /\ Len(last.ret) = 2
    /\ date(clock_heap[last.ret[1]].start) = last.start
    /\ date(clock_heap[last.ret[2]].start) = last.end
    /\ IsSome(last.main_task)
    /\ \A k \in 1..2 : clock_heap[last.ret[k]].task_id
                          \notin {NoneV, last.main_task}

\* ------------------------------------------- claims on the clock edit session
\* C24: create_clock_edit(date) returns a working copy with exactly the stored
\* clocks that start on the date, each once, whatever task they are assigned
\* to, in the order of non-decreasing start.
C24_CreateClockEdit ==
    last.op = "create_clock_edit" =>
        LET cs == Unwrap(edit).clocks IN
        /\ Range(cs) = {doc.clocks[i] : i \in OnDay(last.day)}
        /\ Len(cs) = Cardinality(Range(cs))
        /\ \A x, y \in DOMAIN cs : x < y => clock_heap[cs[x]].start <= clock_heap[cs[y]].start
\* A session of two clocks of one day, one assigned to a task and one not.
C24_Witness ==
    /\ last.op = "create_clock_edit"
    /\ Len(Unwrap(edit).clocks) = 2
    /\ \E x, y \in DOMAIN Unwrap(edit).clocks :
        /\ clock_heap[Unwrap(edit).clocks[x]].task_id = NoneV
        /\ clock_heap[Unwrap(edit).clocks[y]].task_id # NoneV
        /\ clock_heap[Unwrap(edit).clocks[x]].start # clock_heap[Unwrap(edit).clocks[y]].start

\* ------------------------------------------------ claims on the edit commands
\* C25: a start, end or enddate command whose index is outside [1, len]
\* (0 and an empty session included) gives the ClockOutOfIndex error, leaves
\* the entries of the session as they were and does not end the session.
C25_OutOfRange ==
    [][(/\ last'.op \in EditCommands
        /\ IsSome(last'.index) /\ IsSome(last'.arg)
        /\ (Unwrap(last'.index) = 0 \/ Unwrap(last'.index) > Len(Unwrap(edit).clocks)))
       => (/\ ~last'.panic
           /\ last'.ret = Err("ClockOutOfIndex")
           /\ ~last'.exit
           /\ SessionClocks' = SessionClocks)]_vars

\* The session's entry that a command with the 1-based index of `last` is
\* about, before and after the command.
Edited == Unwrap(last.index)
ValidEdit(cmd) ==
    /\ last'.op = cmd
    /\ IsSome(last'.index) /\ IsSome(last'.arg)
    /\ Unwrap(last'.index) \in DOMAIN SessionClocks
OthersKept ==
    /\ DOMAIN SessionClocks' = DOMAIN SessionClocks
    /\ \A p \in DOMAIN SessionClocks \ {Edited'} : SessionClocks'[p] = SessionClocks[p]

\* C26: set_start_time on a valid index succeeds and changes nothing but the
\* time of day of that entry's start: the date of start, the id, end, comment
\* and task_id of the entry and every other entry stay; the time of day is the
\* one given whenever that time exists exactly once on the date, and the old
\* one otherwise.
C26_StartTime ==
    [][ValidEdit("start") =>
          LET old == SessionClocks[Edited']
              new == SessionClocks'[Edited']
          IN /\ ~last'.panic /\ last'.ret = Ok(FALSE)
             /\ OthersKept
             /\ new = [old EXCEPT !.start = new.start]
             /\ date(new.start) = date(old.start)
             /\ time(new.start) = IF last'.single THEN Unwrap(last'.arg) ELSE time(old.start)]_vars
C26_Witness ==
    /\ last.op = "start" /\ IsSome(last.index) /\ IsSome(last.arg) /\ ~last.panic
    /\ last.ret = Ok(FALSE) /\ last.single
    /\ Len(Unwrap(edit).clocks) = 2
    /\ Edited = 1 /\ Unwrap(last.arg) = 1
    /\ SessionClocks[1].start = SessionClocks[2].start
    /\ IsSome(SessionClocks[1].end)

\* C27: set_end_time and set_end_date on a valid index succeed; an entry
\* without end is left as it is; on an entry with end, set_end_time keeps the
\* date of end and set_end_date keeps its time of day, and the part they set is
\* the one given whenever the resulting time exists exactly once, and the old
\* one otherwise; start, like everything but end, is never changed.
C27_EndTimeAndDate ==
    [][(ValidEdit("end") \/ ValidEdit("enddate")) =>
          LET old == SessionClocks[Edited']
              new == SessionClocks'[Edited']
              given == IF last'.single THEN last'.arg ELSE NoneV
          IN /\ ~last'.panic /\ last'.ret = Ok(FALSE)
             /\ OthersKept
             /\ new = [old EXCEPT !.end = new.end]
             /\ old.end = NoneV => new.end = NoneV
             /\ IsSome(old.end) =>
                   /\ IsSome(new.end)
                   /\ last'.op = "end" =>
                         /\ date(Unwrap(new.end)) = date(Unwrap(old.end))
                         /\ time(Unwrap(new.end)) =
                               IF IsSome(given) THEN Unwrap(given) ELSE time(Unwrap(old.end))
                   /\ last'.op = "enddate" =>
                         /\ time(Unwrap(new.end)) = time(Unwrap(old.end))
                         /\ date(Unwrap(new.end)) =
                               IF IsSome(given) THEN Unwrap(given) ELSE date(Unwrap(old.end))]_vars
C27_Witness ==
    /\ last.op = "enddate" /\ IsSome(last.index) /\ IsSome(last.arg) /\ ~last.panic
    /\ last.ret = Ok(FALSE) /\ last.single
    /\ Len(Unwrap(edit).clocks) = 2
    /\ Edited = 1 /\ Unwrap(last.arg) = 1
    /\ SessionClocks[1].start = 0
    /\ SessionClocks[1].end = Some(TicksPerDay + 1)
    /\ SessionClocks[2].end = NoneV

C29_RootResolves ==
    /\ last.op = "new" =>
          /\ DOMAIN doc.map = {doc.root}
          /\ TaskOf(doc.root).children = << >>
          /\ DOMAIN doc.clocks = {}
          /\ doc.current_clock = NoneV
    /\ get_root(doc).ok
C29_Witness ==
    /\ last.op = "upsert" /\ last.id = doc.root
    /\ get_root(doc).ok
    /\ task_heap[get_root(doc).val] = task_new(doc.root)
    /\ Cardinality(DOMAIN doc.map) = MaxTasks
    /\ DOMAIN doc.clocks # {}

\* C30: no step takes an id out of the task store or out of the clock store,
\* so every task that get returned before a step (a task that rm, mv or
\* remove_child detaches included) is returned by get after it.
C30_NeverDeleted ==
    [][/\ DOMAIN doc.map \subseteq DOMAIN doc'.map
       /\ DOMAIN doc.clocks \subseteq DOMAIN doc'.clocks
       /\ \A id \in DOMAIN doc.map :
             get(doc', id).ok /\ task_heap'[get(doc', id).val].id = id]_vars
C30_Witness ==
    /\ last.op = "rm" /\ ~last.panic
    /\ \E id \in DOMAIN doc.map \ {doc.root} :
          /\ \A p \in DOMAIN doc.map : id \notin Range(TaskOf(p).children)
          /\ get(doc, id).ok
    /\ DOMAIN doc.clocks # {}

\* ------------------------------------------------- claims on held snapshots
\* C31: the task behind a handle that get returned is the same after every
\* later modify_task and upsert on the store; and a TaskMod setter called on
\* the held handle changes the held task but no task that get returns, until
\* the caller upserts the handle.
C31_Snapshot ==
    [][/\ last'.op \in {"modify_task", "upsert"} /\ "held" \in DOMAIN last' =>
             /\ task_heap'[last'.held] = task_heap[last.held]
             /\ task_heap'[last'.held] = last'.was
       /\ last'.op = "set" =>
             /\ DOMAIN doc'.map = DOMAIN doc.map
             /\ \A id \in DOMAIN doc.map : task_heap'[doc'.map[id]] = task_heap[doc.map[id]]
             /\ task_heap'[last'.held] = AfterCall(last'.func, last'.before)
       /\ last'.op = "upsert_held" =>
             task_heap'[doc'.map[task_heap[last.held].id]] = task_heap[last.held]]_vars
C31_Witness ==
    /\ last.op = "set" /\ last.func.op = "set_title"
    /\ last.before = last.was
    /\ task_heap[last.held].title = << "a" >>
    /\ task_heap[last.held].id \in DOMAIN doc.map
    /\ TaskOf(task_heap[last.held].id).title = << >>
    /\ Len(TaskOf(task_heap[last.held].id).children) > Len(last.was.children)

C33_PathTerminates ==
    \A pm \in parent_maps(doc, task_heap) : \A id \in DOMAIN doc.map : path(pm, id).returns

\* ---------------------------------------- claims on sessions and the register
\* C34 as stated: applying a session, whatever clock operations and edits
\* came between opening and applying it, reopens no closed clock, does not
\* close the clock the register references, and leaves a Doc in which a stored
\* clock has no end exactly when current_clock references it.
C34_SessionKeepsActive ==
    [][last'.op = "apply_clock_edit" =>
          /\ \A i \in DOMAIN doc.clocks : IsSome(ClockOf(i).end) => IsSome(ClockOf(i)'.end)
          /\ \A i \in DOMAIN doc.clocks :
                doc.current_clock = Some(i) /\ ClockOf(i).end = NoneV => ClockOf(i)'.end = NoneV
          /\ \A i \in DOMAIN doc'.clocks :
                ClockOf(i)'.end = NoneV <=> doc'.current_clock = Some(i)]_vars

\* C35: current_clock is None or the id of a stored clock, after Doc::new()
\* and after every operation on a Doc of which that holds (the task
\* operations, clock_new, clock_out, clock_assign, clock_comment, opening,
\* editing, applying and cancelling a session), and no operation returns
\* ClockNotFound.
C35_RegisterStored ==
    /\ IsSome(doc.current_clock) => clock(doc, Unwrap(doc.current_clock)).ok
    /\ ("ret" \in DOMAIN last /\ "ok" \in DOMAIN last.ret /\ ~last.ret.ok) =>
           last.ret.err # "ClockNotFound"
C35_Witness ==
    /\ last.op = "clock_new" /\ last.ret.ok
    /\ doc.current_clock = Some(last.ret.val.id)
    /\ clock(doc, last.ret.val.id).ok
    /\ Cardinality(DOMAIN doc.clocks) = MaxLoaded + 1
    /\ \E i \in DOMAIN doc.clocks : IsSome(ClockOf(i).end)

\* ---------------------------------------------------- claims on the intervals
\* Two clocks do not overlap: one of them has ended by the start of the other.
Apart(a, b) ==
    \/ IsSome(a.end) /\ Unwrap(a.end) <= b.start
    \/ IsSome(b.end) /\ Unwrap(b.end) <= a.start

\* C36: with the time never going back, under clock_new and clock_out every
\* stored clock that has an end has it at or after its start, any two stored
\* clocks are apart, and when clock_new returns every other clock has ended
\* by the start of the new one.
C36_Intervals ==
    /\ \A i \in DOMAIN doc.clocks :
          IsSome(ClockOf(i).end) => Unwrap(ClockOf(i).end) >= ClockOf(i).start
    /\ \A i, j \in DOMAIN doc.clocks : i # j => Apart(ClockOf(i), ClockOf(j))
    /\ (last.op = "clock_new" /\ last.ret.ok) =>
          \A i \in DOMAIN doc.clocks \ {last.ret.val.id} :
              IsSome(ClockOf(i).end) /\ Unwrap(ClockOf(i).end) <= last.ret.val.start
C36_Witness ==
    /\ last.op = "clock_new" /\ last.ret.ok
    /\ last.ret.val.start = now /\ now > 1
    /\ \E i \in DOMAIN doc.clocks \ {last.ret.val.id} :
          /\ ClockOf(i).start < Unwrap(ClockOf(i).end)
          /\ Unwrap(ClockOf(i).end) < last.ret.val.start

\* --------------------------------------------- claims on editing and applying
\* The ids of the clocks day_clock returns for a day without scope, under any
\* iteration order of the store.
DayIds(d, h, day) ==
    {{h[a].id : a \in Range(day_clock(d, h, order, day, NoneV, << >>))} :
        order \in clock_orders(d)}

\* C37: set_start_time, set_end_time and set_end_date, with any index, leave
\* the session with the same number of entries and each position with the
\* clock id it had; and applying the session leaves day_clock(date, none) with
\* the same ids for every date.
C37_EditsKeepEntries ==
    [][/\ last'.op \in {"set_start_time", "set_end_time", "set_end_date"} =>
             /\ DOMAIN SessionClocks' = DOMAIN SessionClocks
             /\ \A p \in DOMAIN SessionClocks : SessionClocks'[p].id = SessionClocks[p].id
       /\ last'.op = "apply_clock_edit" =>
             \A day \in Dates \cup {MaxTime} :
                 DayIds(doc', clock_heap', day) = DayIds(doc, clock_heap, day)]_vars
C37_Witness ==
    /\ last.op = "apply_clock_edit"
    /\ spent.edits = MaxEdits
    /\ Cardinality(DOMAIN doc.clocks) = 2
    /\ \E i \in DOMAIN doc.clocks :
          /\ time(ClockOf(i).start) = 1
          /\ IsSome(ClockOf(i).end) /\ Unwrap(ClockOf(i).end) < ClockOf(i).start
    /\ DayIds(doc, clock_heap, 0) = {{1, 2}}

\* C38: applying a session right after it was opened leaves every stored
\* clock, the register and the tasks as they were; and applying a session
\* again right after it was applied leaves them as the first apply left them.
C38_ApplyIdempotent ==
    [][(/\ last.op \in {"create_clock_edit", "apply_clone"}
        /\ last'.op = "apply_clone") =>
          /\ StoredClocks' = StoredClocks
          /\ doc'.current_clock = doc.current_clock
          /\ StoredTasks' = StoredTasks
          /\ doc'.root = doc.root]_vars
C38_Witness ==
    /\ last.op = "apply_clone" /\ last.again
    /\ spent.edits = MaxEdits
    /\ IsSome(edit) /\ Len(Unwrap(edit).clocks) = 1
    /\ Cardinality(DOMAIN doc.clocks) = 2
    /\ \A p \in DOMAIN SessionClocks : ClockOf(SessionClocks[p].id) = SessionClocks[p]
    /\ \E i \in DOMAIN doc.clocks : IsSome(ClockOf(i).end) /\ Unwrap(ClockOf(i).end) < ClockOf(i).start

\* --------------------------------------------------- claims on add_subtask
\* The effect of a successful add_subtask step on the task map: the parent's
\* children are the earlier ones followed by the task's id, the task's
\* snapshot (the stored one for a handle from Doc::get, a fresh Task otherwise)
\* is stored under its id, and every other entry is as before.
AddSubtaskEffect ==
    LET id == last'.task_id
        parent == last'.parent
        task == IF id \in DOMAIN doc.map THEN TaskOf(id) ELSE task_new(id)
    IN /\ task_heap'[doc'.map[parent]].children = Append(TaskOf(parent).children, id)
       /\ id \in DOMAIN doc'.map
       /\ id # parent => task_heap'[doc'.map[id]] = task
       /\ DOMAIN doc'.map = DOMAIN doc.map \cup {id}
       /\ \A q \in DOMAIN doc.map \ {parent, id} : TaskOf(q)' = TaskOf(q)

\* C39 as stated: add_subtask(task, parent), for any task and parent, appends
\* task.id last to the parent's children, keeps the earlier children in their
\* order, stores task under task.id and changes no other task entry.
C39_Original ==
    [][(last'.op = "add_subtask" /\ last'.ret.ok) => AddSubtaskEffect]_vars
\* C39 amended: the same, when task.id differs from parent.
C39_AddSubtaskFrame ==
    [][(last'.op = "add_subtask" /\ last'.ret.ok /\ last'.task_id # last'.parent)
          => AddSubtaskEffect]_vars
C39_Witness ==
    /\ last.op = "add_subtask"
    /\ last.ret.ok
    /\ last.task_id # last.parent
    /\ last.parent # doc.root
    /\ Len(TaskOf(last.parent).children) >= 2
    /\ TaskOf(last.parent).children[Len(TaskOf(last.parent).children)] = last.task_id
    /\ TaskOf(last.parent).children[1] # last.task_id
    /\ Cardinality(DOMAIN doc.map) = 3
====
